---- MODULE Spec2Model ----
(***************************************************************************)
(* Model of the service-integration clients of automation_suite:           *)
(*   - JiraService.transition_issue / JiraClient.transition_issue          *)
(*   - ConfluenceClient.get_child_pages                                    *)
(*   - JiraClient.resolve_field_id, JiraIssue.get, JiraService.update_fields*)
(* Strings are sequences of one-character strings so that str.lower() and  *)
(* str.startswith() are computed, not assumed.                             *)
(***************************************************************************)
EXTENDS Integers, Sequences, FiniteSets, TLC

VARIABLES
    \* ---- JiraService.transition_issue ----
    ticketStatus,      \* upstream: status name of the issue (None when the payload has none)
    pc,                \* position inside transition_issue
    required_status,   \* argument
    target_status,     \* argument
    before,            \* local `before`
    after,             \* local `after`
    changed,           \* third component of the returned tuple
    outcome,           \* "none" | "returned" | "error"
    transitions,       \* the list answered by GET .../transitions
    target_id,         \* local `target_id` of JiraClient.transition_issue
    requests,          \* requests issued so far, in order
    \* ---- ConfluenceClient.get_child_pages ----
    childCount,        \* upstream: number of child pages of the parent (ids 1..childCount)
    cpc,               \* position inside get_child_pages
    limit,             \* argument (NoLimit for None)
    page_size,         \* argument
    collected,         \* local `collected`
    start,             \* local `start`
    cpOutcome,         \* "none" | "returned" | "error"
    responses,         \* one record per child-page request: what was asked, what came back
    \* ---- JiraClient.resolve_field_id, JiraIssue.get, JiraService.update_fields ----
    fieldList,         \* upstream: the answer of GET /rest/api/2/field
    field_id_by_name,  \* JiraClient._field_id_by_name
    fieldRequests,     \* number of GET /rest/api/2/field requests issued by the client
    fieldAnswers,      \* number of those requests the upstream answered
    calls,             \* number of calls made on the client
    last,              \* the last resolve_field_id / JiraIssue.get call and its result
    upc,               \* position inside update_fields
    fields_by_name,    \* argument of update_fields, as items in insertion order
    index,             \* next item of fields_by_name.items()
    resolved,          \* local `resolved`
    puts,              \* payload fields of the PUT requests issued by update_fields
    uOutcome,          \* "none" | "returned" | "no_valid_fields" | "integration_error"
    \* ---- JiraService.update_labels ----
    lAdd,              \* argument `add` (None when omitted)
    lRemove,           \* argument `remove` (None when omitted)
    lRequests,         \* the PUT requests issued by update_labels, in order
    lOutcome,          \* "none" | "returned" | "integration_error"
    \* ---- JiraService._find_service_desk_id ----
    project_key,       \* argument
    sdpc,              \* position inside _find_service_desk_id
    sdStart,           \* local `start`
    sdResponses,       \* one record per service-desk listing request: what was asked, what came back
    sdResult,          \* the returned id (None while there is none)
    sdOutcome,         \* "none" | "returned" | "not_found" | "integration_error"
    \* ---- JiraService._fetch_queue_issues ----
    queueEntries,      \* upstream: the entries of the queue's issue listing
    serverCap,         \* upstream: the most entries it puts on one page
    clientTimeout,     \* JiraClient.timeout
    queue_identifier,  \* argument
    service_desk_id,   \* argument (None when not given)
    qLimit,            \* argument `limit`
    qpc,               \* position inside _fetch_queue_issues
    sd_id_str,         \* local `sd_id_str`
    queue_info,        \* local `queue_info`
    issues,            \* local `issues` (an issue is modelled by its key)
    issue_keys,        \* `collected` of _fetch_queue_issue_keys, then local `issue_keys`
    keyStart,          \* local `start` of _fetch_queue_issue_keys
    keyIndex,          \* next element of `for key in issue_keys`
    qRequests,         \* one record per HTTP request: what was asked, what came back
    qOutcome,          \* "none" | "returned" | "integration_error"
    \* ---- connect_jira / connect_confluence ----
    kKind,             \* which of the two context managers is entered
    kSettings,         \* argument `settings`
    kClient,           \* local `client` (NoClient while there is none)
    session,           \* state of client.session: "none" | "open" | "closed"
    kpc,               \* position inside the context manager
    bodyOutcome,       \* how the `with` body ended: "none" | "returned" | "client_error" | "other_error"
    closeAttempts,     \* number of calls of client.close()
    closeOutcome,      \* "none" | "returned" | "client_error"
    kRaised,           \* what reaches the caller of the `with` statement: "none" | "client_error" | "other_error"
    \* ---- confluence/service.py: extraction from storage markup ----
    storage,           \* argument: the markup, as a sequence of tokens (AbsentMarkup for None)
    title,             \* argument of extract_heading_section
    macro_name,        \* argument of extract_macro_contents
    pOp,               \* the extraction that was called: "none" | "heading" | "macros" | "objects"
    section,           \* result of extract_heading_section (NoSection for None)
    contents,          \* result of extract_macro_contents
    objects,           \* result of extract_storage_objects
    pOutcome,          \* "none" | "returned" | "raised"
    \* ---- confluence/service.py: _collect_issue_keys_from_params ----
    iParams,           \* argument: the macro's parameter mapping
    iKeys,             \* the list returned
    iOutcome,          \* "none" | "returned"
    \* ---- jira/client.py, confluence/client.py: _request ----
    eKind,             \* which client issues the request: "jira" | "confluence"
    eResponse,         \* what the upstream does with a request
    eAttempts,         \* number of session.request calls
    eOutcome,          \* "none" | "returned" | "raised"
    eError,            \* the error that reaches the caller: [kind, message]
    \* ---- JiraService.fetch_issue_fields ----
    bKeys,             \* argument: the issue keys
    bNames,            \* argument: the field names
    bFieldList,        \* upstream: the field list of the tracker
    bCache,            \* client._field_id_by_name
    bAt,               \* position of the loop in the issue keys
    bResults,          \* results
    bFailed,           \* failed
    bLog,              \* per key handled: what the upstream did
    bOutcome,          \* "none" | "returned" | "raised"
    \* ---- ConfluenceService.fetch_targets ----
    gpc,               \* position inside fetch_targets
    is_parent,         \* argument
    gMessage,          \* str(exc) of the ConfluenceError a request raised (None while there is none)
    gPages,            \* first component of the returned tuple
    gFailures,         \* second component of the returned tuple
    gOutcome           \* "none" | "returned" | "raised"

tvars == <<ticketStatus, pc, required_status, target_status, before, after,
           changed, outcome, transitions, target_id, requests>>

cvars == <<childCount, cpc, limit, page_size, collected, start, cpOutcome, responses>>

fvars == <<fieldList, field_id_by_name, fieldRequests, fieldAnswers, calls, last, upc,
           fields_by_name, index, resolved, puts, uOutcome>>

lvars == <<lAdd, lRemove, lRequests, lOutcome>>

svars == <<project_key, sdpc, sdStart, sdResponses, sdResult, sdOutcome>>

qvars == <<queueEntries, serverCap, clientTimeout, queue_identifier, service_desk_id, qLimit,
           qpc, sd_id_str, queue_info, issues, issue_keys, keyStart, keyIndex, qRequests,
           qOutcome>>

kvars == <<kKind, kSettings, kClient, session, kpc, bodyOutcome, closeAttempts, closeOutcome,
           kRaised>>

pvars == <<storage, title, macro_name, pOp, section, contents, objects, pOutcome>>

ivars == <<iParams, iKeys, iOutcome>>

evars == <<eKind, eResponse, eAttempts, eOutcome, eError>>

bvars == <<bKeys, bNames, bFieldList, bCache, bAt, bResults, bFailed, bLog, bOutcome>>

gvars == <<gpc, is_parent, gMessage, gPages, gFailures, gOutcome>>

vars == <<tvars, cvars, fvars, lvars, svars, qvars, kvars, pvars, ivars, evars, bvars, gvars>>

\* what an operation of one component leaves alone: every other component
exceptT == <<cvars, fvars, lvars, svars, qvars, kvars, pvars, ivars, evars, bvars, gvars>>

exceptC == <<tvars, fvars, lvars, svars, qvars, kvars, pvars, ivars, evars, bvars, gvars>>

exceptF == <<tvars, cvars, lvars, svars, qvars, kvars, pvars, ivars, evars, bvars, gvars>>

exceptL == <<tvars, cvars, fvars, svars, qvars, kvars, pvars, ivars, evars, bvars, gvars>>

exceptS == <<tvars, cvars, fvars, lvars, qvars, kvars, pvars, ivars, evars, bvars, gvars>>

exceptQ == <<tvars, cvars, fvars, lvars, svars, kvars, pvars, ivars, evars, bvars, gvars>>

exceptK == <<tvars, cvars, fvars, lvars, svars, qvars, pvars, ivars, evars, bvars, gvars>>

exceptP == <<tvars, cvars, fvars, lvars, svars, qvars, kvars, ivars, evars, bvars, gvars>>

exceptI == <<tvars, cvars, fvars, lvars, svars, qvars, kvars, pvars, evars, bvars, gvars>>

exceptE == <<tvars, cvars, fvars, lvars, svars, qvars, kvars, pvars, ivars, bvars, gvars>>

exceptB == <<tvars, cvars, fvars, lvars, svars, qvars, kvars, pvars, ivars, evars, gvars>>

exceptG == <<tvars, fvars, lvars, svars, qvars, kvars, pvars, ivars, evars, bvars>>

-----------------------------------------------------------------------------
(* Bounds *)
MaxTransitions == 2
MaxChildren == 4
MaxLimit == 3
MaxPageSize == 2
MaxFields == 2
MaxCalls == 2
MaxUpdateFields == 2
MaxLabels == 2
MaxSdPage == 2
MaxSdRequests == 2
MaxQueueSize == 2
MaxServerCap == 2
MaxQueueLimit == 2
MaxNodes == 3
MaxRows == 3
MaxKeyTokens == 2
MaxMessages == 2
MaxBatch == 2

-----------------------------------------------------------------------------
(* Strings *)

\* Python None; distinct from the empty string <<>>
None == <<"<None>">>

UpperAlpha == <<"A", "B", "C", "D", "E", "F", "G", "H", "I", "J", "K", "L", "M",
                "N", "O", "P", "Q", "R", "S", "T", "U", "V", "W", "X", "Y", "Z">>
LowerAlpha == <<"a", "b", "c", "d", "e", "f", "g", "h", "i", "j", "k", "l", "m",
                "n", "o", "p", "q", "r", "s", "t", "u", "v", "w", "x", "y", "z">>

\* upper-case letter -> lower-case letter
LowerTable ==
    [c \in {UpperAlpha[i] : i \in DOMAIN UpperAlpha} |->
        LowerAlpha[CHOOSE i \in DOMAIN UpperAlpha : UpperAlpha[i] = c]]

LowerChar(c) == IF c \in DOMAIN LowerTable THEN LowerTable[c] ELSE c

\* str.lower()
lower(s) == [i \in 1..Len(s) |-> LowerChar(s[i])]

\* str.startswith(prefix)
startswith(s, prefix) ==
    /\ Len(s) >= Len(prefix)
    /\ SubSeq(s, 1, Len(prefix)) = prefix

\* Python truthiness of an optional string: None and "" are falsy
Truthy(s) == s # None /\ s # <<>>

\* `a or b` on optional strings
OrElse(a, b) == IF Truthy(a) THEN a ELSE b

sOpen == <<"O", "p", "e", "n">>
sInProgress == <<"I", "n", " ", "P", "r", "o", "g", "r", "e", "s", "s">>
sInProgressLc == <<"i", "n", " ", "p", "r", "o", "g", "r", "e", "s", "s">>
sDone == <<"D", "o", "n", "e">>
sDoneUc == <<"D", "O", "N", "E">>
sDoneLc == <<"d", "o", "n", "e">>
sStartProgress == <<"S", "t", "a", "r", "t", " ", "P", "r", "o", "g", "r", "e", "s", "s">>
sResolve == <<"R", "e", "s", "o", "l", "v", "e">>

fTeam == <<"T", "e", "a", "m">>
fStatus == <<"S", "t", "a", "t", "u", "s">>
fstatus == <<"s", "t", "a", "t", "u", "s">>
fsummary == <<"s", "u", "m", "m", "a", "r", "y">>
fNope == <<"N", "o", "p", "e">>
fcfPrefix == <<"c", "u", "s", "t", "o", "m", "f", "i", "e", "l", "d", "_">>
fcf100 == <<"c", "u", "s", "t", "o", "m", "f", "i", "e", "l", "d", "_", "1", "0", "0">>
fcf300 == <<"c", "u", "s", "t", "o", "m", "f", "i", "e", "l", "d", "_", "3", "0", "0">>
fcf400 == <<"c", "u", "s", "t", "o", "m", "f", "i", "e", "l", "d", "_", "4", "0", "0">>

Digits == <<"1", "2", "3", "4", "5">>
\* the i-th field value
Value(i) == <<"v", Digits[i]>>

-----------------------------------------------------------------------------
(* JiraService.transition_issue *)

\* status names an issue payload can carry (None: no status object / no name)
TicketStatuses == {None, sOpen, sInProgress, sDone}

\* values of --only-status; None and "" both mean "not given"
RequiredStatuses == {None, <<>>, sOpen, sInProgressLc}

\* values of --target-status; the CLI rejects an empty target
TargetStatuses == {sDone, sDoneUc, sInProgress}

\* entries of the upstream transition listing: id, name, to.name
TransitionEntries ==
    { [id |-> "11", name |-> sStartProgress, to |-> sInProgress],
      [id |-> "21", name |-> sDone,          to |-> sDone],
      [id |-> "31", name |-> None,           to |-> sDone],
      [id |-> "41", name |-> sResolve,       to |-> sDone],
      [id |-> "",   name |-> sDone,          to |-> sDone],
      [id |-> "51", name |-> sDoneLc,        to |-> sOpen],
      [id |-> "61", name |-> sInProgress,    to |-> None],
      [id |-> "71", name |-> sDone,          to |-> None] }

SeqsUpTo(S, n) == UNION { [1..k -> S] : k \in 0..n }

\* listings the upstream can answer: transition ids are unique within a listing
TransitionLists ==
    { ts \in SeqsUpTo(TransitionEntries, MaxTransitions) :
        \A i, j \in DOMAIN ts : i # j => ts[i].id # ts[j].id }

\* JiraIssue.status
IssueStatus(payloadStatus) == payloadStatus

\* the guards of lines 96-99, with case-sensitive comparisons
ShouldSkipCaseSensitive(b, req, tgt) ==
    \/ Truthy(req) /\ b # req
    \/ b = tgt

\* service.py 96-99: return unchanged?
ShouldSkip(b, req, tgt) ==
    \/ Truthy(req) /\ lower(b) # lower(req)
    \/ lower(b) = lower(tgt)

\* client.py 104: name = entry.get("name") or entry.get("to", {}).get("name")
EntryName(entry) == OrElse(entry.name, entry.to)

\* client.py 105
EntryMatches(entry, tgt) ==
    Truthy(EntryName(entry)) /\ lower(EntryName(entry)) = lower(tgt)

\* a selection that falls back to the first listed transition
FindTransitionOrFirst(ts, tgt) ==
    IF \E i \in DOMAIN ts : EntryMatches(ts[i], tgt)
    THEN ts[CHOOSE i \in DOMAIN ts :
                /\ EntryMatches(ts[i], tgt)
                /\ \A j \in 1..(i-1) : ~EntryMatches(ts[j], tgt)].id
    ELSE IF ts # <<>> THEN ts[1].id ELSE ""

\* client.py 102-107: id of the first matching entry ("" when none matches)
FindTransition(ts, tgt) ==
    IF \E i \in DOMAIN ts : EntryMatches(ts[i], tgt)
    THEN ts[CHOOSE i \in DOMAIN ts :
                /\ EntryMatches(ts[i], tgt)
                /\ \A j \in 1..(i-1) : ~EntryMatches(ts[j], tgt)].id
    ELSE ""

\* upstream effect of POST .../transitions with a listed id: the issue moves
\* to the destination the listing declared (it stays when none is declared)
Destination(ts, id, cur) ==
    IF \E i \in DOMAIN ts : ts[i].id = id /\ ts[i].to # None
    THEN ts[CHOOSE i \in DOMAIN ts : ts[i].id = id].to
    ELSE cur

\* an `after` that is not taken from the re-fetched issue
AfterValueStale(refetched, tgt) == tgt

\* service.py 102: after = issue.status or target_status
AfterValue(refetched, tgt) == OrElse(refetched, tgt)

GetIssueReq(st) == [method |-> "GET", path |-> "issue", status |-> st, id |-> ""]
ListReq == [method |-> "GET", path |-> "transitions", status |-> None, id |-> ""]
PostReq(id) == [method |-> "POST", path |-> "transitions", status |-> None, id |-> id]

TInit ==
    /\ ticketStatus \in TicketStatuses
    /\ pc = "idle"
    /\ required_status = None
    /\ target_status = None
    /\ before = None
    /\ after = None
    /\ changed = FALSE
    /\ outcome = "none"
    /\ transitions = <<>>
    /\ target_id = ""
    /\ requests = <<>>

\* service.transition_issue(key, required_status=..., target_status=...)
TransitionIssue ==
    /\ pc = "idle"
    /\ \E req \in RequiredStatuses, tgt \in TargetStatuses :
        /\ required_status' = req
        /\ target_status' = tgt
    /\ pc' = "get_issue"
    /\ UNCHANGED <<ticketStatus, before, after, changed, outcome, transitions,
                   target_id, requests>>
    /\ UNCHANGED exceptT

\* service.py 94-99: first fetch and the two guards
GetIssue ==
    /\ pc = "get_issue"
    /\ requests' = Append(requests, GetIssueReq(ticketStatus))
    /\ LET b == OrElse(IssueStatus(ticketStatus), <<>>) IN
        /\ before' = b
        /\ IF ShouldSkip(b, required_status, target_status)
           THEN /\ after' = b
                /\ changed' = FALSE
                /\ outcome' = "returned"
                /\ pc' = "done"
           ELSE /\ pc' = "list"
                /\ UNCHANGED <<after, changed, outcome>>
    /\ UNCHANGED <<ticketStatus, required_status, target_status, transitions, target_id>>
    /\ UNCHANGED exceptT

\* client.py 99-111: list the transitions and select one
ListTransitions ==
    /\ pc = "list"
    /\ \E ts \in TransitionLists :
        /\ transitions' = ts
        /\ target_id' = FindTransition(ts, target_status)
        /\ IF FindTransition(ts, target_status) = ""
           THEN /\ outcome' = "error"
                /\ pc' = "done"
           ELSE /\ pc' = "post"
                /\ UNCHANGED outcome
    /\ requests' = Append(requests, ListReq)
    /\ UNCHANGED <<ticketStatus, required_status, target_status, before, after, changed>>
    /\ UNCHANGED exceptT

\* client.py 112-116: POST the selected transition id
PostTransition ==
    /\ pc = "post"
    /\ requests' = Append(requests, PostReq(target_id))
    /\ ticketStatus' = Destination(transitions, target_id, ticketStatus)
    /\ pc' = "refresh"
    /\ UNCHANGED <<required_status, target_status, before, after, changed, outcome,
                   transitions, target_id>>
    /\ UNCHANGED exceptT

\* service.py 101-103: re-fetch and return
Refresh ==
    /\ pc = "refresh"
    /\ requests' = Append(requests, GetIssueReq(ticketStatus))
    /\ after' = AfterValue(IssueStatus(ticketStatus), target_status)
    /\ changed' = TRUE
    /\ outcome' = "returned"
    /\ pc' = "done"
    /\ UNCHANGED <<ticketStatus, required_status, target_status, before, transitions,
                   target_id>>
    /\ UNCHANGED exceptT

\* client.py 171-175: the pending request raises IntegrationError, which
\* transition_issue does not catch
TRequestFails ==
    /\ pc \in {"get_issue", "list", "post", "refresh"}
    /\ outcome' = "error"
    /\ pc' = "done"
    /\ UNCHANGED <<ticketStatus, required_status, target_status, before, after, changed,
                   transitions, target_id, requests>>
    /\ UNCHANGED exceptT

TNext ==
    \/ TransitionIssue
    \/ GetIssue
    \/ ListTransitions
    \/ PostTransition
    \/ Refresh
    \/ TRequestFails

-----------------------------------------------------------------------------
(* ConfluenceClient.get_child_pages *)

\* limit=None
NoLimit == -1

Min(a, b) == IF a <= b THEN a ELSE b

\* the largest number of entries one response carries; the upstream is not
\* bound to the `limit` parameter of the request
MaxResponse == MaxPageSize + 1

\* a batch size that ignores the caller's limit
BatchSizeUncapped(ps, lim, n) == ps

\* client.py 64-66
BatchSize(ps, lim, n) == IF lim # NoLimit THEN Min(ps, lim - n) ELSE ps

\* a loop test that never finds the cap reached
LimitHitNever(lim, n) == FALSE

\* client.py 62: limit is not None and len(collected) >= limit
LimitHit(lim, n) == lim # NoLimit /\ n >= lim

\* a cursor advanced by the requested batch size
NextStartByBatch(s, entries, batch) == s + batch

\* client.py 79: start += len(entries)
NextStart(s, entries, batch) == s + Len(entries)

\* the upstream's answer to start=s with k entries: the child pages after
\* offset s, as many as there are
Page(s, k) == [i \in 1..Min(k, IF childCount > s THEN childCount - s ELSE 0) |-> s + i]

CInit ==
    /\ childCount \in 0..MaxChildren
    /\ cpc = "idle"
    /\ limit = NoLimit
    /\ page_size = 1
    /\ collected = <<>>
    /\ start = 0
    /\ cpOutcome = "none"
    /\ responses = <<>>

\* client.get_child_pages(parent, limit=..., page_size=...)
GetChildPages ==
    /\ cpc = "idle"
    /\ limit' \in {NoLimit} \cup 0..MaxLimit
    /\ page_size' \in 1..MaxPageSize
    /\ cpc' = "loop"
    /\ UNCHANGED <<childCount, collected, start, cpOutcome, responses>>
    /\ UNCHANGED exceptC

\* client.py 62-63 and 80: the cap is reached, return collected
LimitReached ==
    /\ cpc = "loop"
    /\ LimitHit(limit, Len(collected))
    /\ cpc' = "done"
    /\ cpOutcome' = "returned"
    /\ UNCHANGED <<childCount, limit, page_size, collected, start, responses>>
    /\ UNCHANGED exceptC

\* client.py 64-79: one request and its response
FetchBatch ==
    /\ cpc = "loop"
    /\ ~LimitHit(limit, Len(collected))
    /\ \E k \in 0..MaxResponse, next_link \in BOOLEAN :
        LET batch_size == BatchSize(page_size, limit, Len(collected))
            entries == Page(start, k)
        IN  /\ responses' = Append(responses,
                                [start |-> start, limit |-> batch_size,
                                 entries |-> entries, next |-> next_link])
            /\ collected' = collected \o entries
            /\ IF ~next_link \/ entries = <<>>
               THEN /\ cpc' = "done"
                    /\ cpOutcome' = "returned"
                    /\ UNCHANGED start
               ELSE /\ start' = NextStart(start, entries, batch_size)
                    /\ UNCHANGED <<cpc, cpOutcome>>
    /\ UNCHANGED <<childCount, limit, page_size>>
    /\ UNCHANGED exceptC

\* client.py 91-95: the request raises ConfluenceError
CRequestFails ==
    /\ cpc = "loop"
    /\ ~LimitHit(limit, Len(collected))
    /\ cpc' = "done"
    /\ cpOutcome' = "error"
    /\ UNCHANGED <<childCount, limit, page_size, collected, start, responses>>
    /\ UNCHANGED exceptC

CNext ==
    \/ GetChildPages
    \/ LimitReached
    \/ FetchBatch
    \/ CRequestFails

\* the client that is not in use stays as constructed
TIdle ==
    /\ ticketStatus = None
    /\ pc = "idle"
    /\ required_status = None
    /\ target_status = None
    /\ before = None
    /\ after = None
    /\ changed = FALSE
    /\ outcome = "none"
    /\ transitions = <<>>
    /\ target_id = ""
    /\ requests = <<>>

CIdle ==
    /\ childCount = 0
    /\ cpc = "idle"
    /\ limit = NoLimit
    /\ page_size = 1
    /\ collected = <<>>
    /\ start = 0
    /\ cpOutcome = "none"
    /\ responses = <<>>

-----------------------------------------------------------------------------
(* JiraClient.resolve_field_id, JiraIssue.get, JiraService.update_fields *)

\* entries of the upstream field list: display name and id, either may be missing
FieldEntries ==
    { [name |-> fTeam,   id |-> fcf100],
      [name |-> fStatus, id |-> fcf300],
      [name |-> fStatus, id |-> fstatus],
      [name |-> None,    id |-> fcf400] }

FieldLists == SeqsUpTo(FieldEntries, MaxFields)

\* names looked up by callers
FieldNames == {<<>>, fTeam, fNope, fcf100, fstatus, fsummary}

\* field mappings of fetched issues
IssueFieldMaps ==
    { (fcf100 :> Value(1)),
      (fTeam :> Value(2)) @@ (fcf100 :> Value(1)),
      (fcf300 :> Value(3)),
      (fstatus :> Value(4)) @@ (fcf300 :> Value(3)) }

\* arguments of update_fields: items with distinct names, in insertion order
UpdateNames == {<<>>, fTeam, fcf100, fNope, fstatus}

UpdateMaps ==
    { [i \in DOMAIN ns |-> [name |-> ns[i], value |-> Value(i)]] :
        ns \in { s \in SeqsUpTo(UpdateNames, MaxUpdateFields) :
                    \A i, j \in DOMAIN s : i # j => s[i] # s[j] } }

\* client.py 151
IsFieldKey(field_name) ==
    startswith(field_name, fcfPrefix) \/ field_name \in {fsummary, fstatus}

RECURSIVE Populate(_, _)
\* client.py 154-159: fill the cache from the field list, later entries win
Populate(cache, fields) ==
    IF fields = <<>> THEN cache
    ELSE LET entry == Head(fields)
             name == lower(OrElse(entry.name, <<>>))
         IN  Populate(IF ~Truthy(name) \/ ~Truthy(entry.id)
                      THEN cache
                      ELSE (name :> entry.id) @@ cache,
                      Tail(fields))

\* a lookup that does not lower-case the requested name
resolve_field_id_CaseSensitive(cache, fields, field_name) ==
    IF ~Truthy(field_name)
    THEN [id |-> None, cache |-> cache, requested |-> FALSE]
    ELSE IF field_name \in DOMAIN cache
    THEN [id |-> cache[field_name], cache |-> cache, requested |-> FALSE]
    ELSE IF IsFieldKey(field_name)
    THEN [id |-> field_name, cache |-> cache, requested |-> FALSE]
    ELSE LET filled == Populate(cache, fields)
         IN  [id |-> IF field_name \in DOMAIN filled THEN filled[field_name] ELSE None,
              cache |-> filled, requested |-> TRUE]

\* client.py 143-160: the id returned, the cache afterwards, and whether
\* GET /rest/api/2/field was requested
resolve_field_id(cache, fields, field_name) ==
    IF ~Truthy(field_name)
    THEN [id |-> None, cache |-> cache, requested |-> FALSE]
    ELSE IF lower(field_name) \in DOMAIN cache
    THEN [id |-> cache[lower(field_name)], cache |-> cache, requested |-> FALSE]
    ELSE IF IsFieldKey(field_name)
    THEN [id |-> field_name, cache |-> cache, requested |-> FALSE]
    ELSE LET filled == Populate(cache, fields)
             lowered == lower(field_name)
         IN  [id |-> IF lowered \in DOMAIN filled THEN filled[lowered] ELSE None,
              cache |-> filled, requested |-> TRUE]

\* a loop that keeps items with an empty name
SkipNameNever(name) == FALSE

\* service.py 114-115: if not name: continue
SkipName(name) == ~Truthy(name)

NoCall == [op |-> "none", name |-> None, fields |-> <<>>, outcome |-> "none",
           result |-> None, requested |-> FALSE, cacheBefore |-> <<>>]

FInit ==
    /\ fieldList \in FieldLists
    /\ field_id_by_name = <<>>
    /\ fieldRequests = 0
    /\ fieldAnswers = 0
    /\ calls = 0
    /\ last = NoCall
    /\ upc = "idle"
    /\ fields_by_name = <<>>
    /\ index = 1
    /\ resolved = <<>>
    /\ puts = <<>>
    /\ uOutcome = "none"

\* client.resolve_field_id(name); ok = FALSE: the field-list request raises
ResolveFieldId ==
    /\ upc = "idle"
    /\ calls < MaxCalls
    /\ \E name \in FieldNames, ok \in BOOLEAN :
        LET r == resolve_field_id(field_id_by_name, fieldList, name)
        IN  /\ ~ok => r.requested
            /\ fieldRequests' = fieldRequests + (IF r.requested THEN 1 ELSE 0)
            /\ fieldAnswers' = fieldAnswers + (IF r.requested /\ ok THEN 1 ELSE 0)
            /\ field_id_by_name' = IF ok THEN r.cache ELSE field_id_by_name
            /\ last' = [op |-> "resolve", name |-> name, fields |-> <<>>,
                        outcome |-> IF ok THEN "id" ELSE "integration_error",
                        result |-> IF ok THEN r.id ELSE None,
                        requested |-> r.requested,
                        cacheBefore |-> field_id_by_name]
    /\ calls' = calls + 1
    /\ UNCHANGED <<fieldList, upc, fields_by_name, index, resolved, puts, uOutcome>>
    /\ UNCHANGED exceptF

\* issue.get(name) on a fetched issue (client.py 33-41)
IssueGet ==
    /\ upc = "idle"
    /\ calls < MaxCalls
    /\ \E fields \in IssueFieldMaps, name \in FieldNames, ok \in BOOLEAN :
        IF name \in DOMAIN fields
        THEN /\ ok
             /\ last' = [op |-> "get", name |-> name, fields |-> fields,
                         outcome |-> "value", result |-> fields[name],
                         requested |-> FALSE, cacheBefore |-> field_id_by_name]
             /\ UNCHANGED <<fieldRequests, fieldAnswers, field_id_by_name>>
        ELSE LET r == resolve_field_id(field_id_by_name, fieldList, name)
                 found == Truthy(r.id) /\ r.id \in DOMAIN fields
             IN  /\ ~ok => r.requested
                 /\ fieldRequests' = fieldRequests + (IF r.requested THEN 1 ELSE 0)
                 /\ fieldAnswers' = fieldAnswers + (IF r.requested /\ ok THEN 1 ELSE 0)
                 /\ field_id_by_name' = IF ok THEN r.cache ELSE field_id_by_name
                 /\ last' = [op |-> "get", name |-> name, fields |-> fields,
                             outcome |-> IF ~ok THEN "integration_error"
                                         ELSE IF found THEN "value"
                                         ELSE "field_not_found",
                             result |-> IF ok /\ found THEN fields[r.id] ELSE None,
                             requested |-> r.requested,
                             cacheBefore |-> field_id_by_name]
    /\ calls' = calls + 1
    /\ UNCHANGED <<fieldList, upc, fields_by_name, index, resolved, puts, uOutcome>>
    /\ UNCHANGED exceptF

\* service.update_fields(key, fields_by_name): service.py 110-112
UpdateFields ==
    /\ upc = "idle"
    /\ calls < MaxCalls
    /\ \E m \in UpdateMaps :
        /\ fields_by_name' = m
        /\ IF m = <<>>
           THEN upc' = "done" /\ uOutcome' = "returned"
           ELSE upc' = "resolve" /\ UNCHANGED uOutcome
    /\ calls' = calls + 1
    /\ last' = NoCall
    /\ UNCHANGED <<fieldList, field_id_by_name, fieldRequests, fieldAnswers, index,
                   resolved, puts>>
    /\ UNCHANGED exceptF

\* service.py 113-117: one iteration of the loop over the items
ResolveName ==
    /\ upc = "resolve"
    /\ LET item == fields_by_name[index] IN
        IF SkipName(item.name)
        THEN /\ UNCHANGED <<field_id_by_name, fieldRequests, fieldAnswers, resolved, uOutcome>>
             /\ index' = index + 1
             /\ upc' = IF index = Len(fields_by_name) THEN "finish" ELSE "resolve"
        ELSE \E ok \in BOOLEAN :
             LET r == resolve_field_id(field_id_by_name, fieldList, item.name)
                 field_id == OrElse(r.id, item.name)
             IN  /\ ~ok => r.requested
                 /\ fieldRequests' = fieldRequests + (IF r.requested THEN 1 ELSE 0)
                 /\ fieldAnswers' = fieldAnswers + (IF r.requested /\ ok THEN 1 ELSE 0)
                 /\ IF ok
                    THEN /\ field_id_by_name' = r.cache
                         /\ resolved' = (field_id :> item.value) @@ resolved
                         /\ index' = index + 1
                         /\ upc' = IF index = Len(fields_by_name)
                                   THEN "finish" ELSE "resolve"
                         /\ UNCHANGED uOutcome
                    ELSE /\ upc' = "done"
                         /\ uOutcome' = "integration_error"
                         /\ UNCHANGED <<field_id_by_name, resolved, index>>
    /\ UNCHANGED <<fieldList, calls, last, fields_by_name, puts>>
    /\ UNCHANGED exceptF

\* service.py 118-120 and client.py 125-132: raise, or issue the PUT
FinishUpdate ==
    /\ upc = "finish"
    /\ IF resolved = <<>>
       THEN /\ uOutcome' = "no_valid_fields"
            /\ UNCHANGED puts
       ELSE /\ puts' = Append(puts, resolved)
            /\ uOutcome' \in {"returned", "integration_error"}
    /\ upc' = "done"
    /\ UNCHANGED <<fieldList, field_id_by_name, fieldRequests, fieldAnswers, calls,
                   last, fields_by_name, index, resolved>>
    /\ UNCHANGED exceptF

\* lookups on one client
FNext ==
    \/ ResolveFieldId
    \/ IssueGet

\* update_fields on a client that may have resolved names before
UNext ==
    \/ ResolveFieldId
    \/ UpdateFields
    \/ ResolveName
    \/ FinishUpdate

FIdle ==
    /\ fieldList = <<>>
    /\ field_id_by_name = <<>>
    /\ fieldRequests = 0
    /\ fieldAnswers = 0
    /\ calls = 0
    /\ last = NoCall
    /\ upc = "idle"
    /\ fields_by_name = <<>>
    /\ index = 1
    /\ resolved = <<>>
    /\ puts = <<>>
    /\ uOutcome = "none"

-----------------------------------------------------------------------------
(* JiraService.update_labels *)

lblBug == <<"b", "u", "g">>
lblOld == <<"o", "l", "d">>

\* labels a caller can pass; <<>> is the empty string
Labels == {<<>>, lblBug, lblOld}

\* the value None where a list of strings is expected
NoList == <<None>>

\* values of `add` and of `remove`: None (omitted) or a list of labels
LabelLists == {NoList} \cup SeqsUpTo(Labels, MaxLabels)

\* `add or []`
OrEmptyList(list) == IF list = NoList THEN <<>> ELSE list

KeepLabelAlways(label) == TRUE

\* `if label` of the two list comprehensions
KeepLabel(label) == Truthy(label)

\* {"add": label} / {"remove": label}
LabelOp(kind, label) == [op |-> kind, label |-> label]

LabelOps(kind, list) == [i \in 1..Len(list) |-> LabelOp(kind, list[i])]

\* the local `updates` of update_labels
LabelUpdates(add, remove) ==
    LET add_list == SelectSeq(OrEmptyList(add), KeepLabel)
        remove_list == SelectSeq(OrEmptyList(remove), KeepLabel)
    IN  LabelOps("add", add_list) \o LabelOps("remove", remove_list)

\* JiraClient.update_issue(key, fields=None, updates={"labels": updates})
LabelsPut(updates) == [method |-> "PUT", path |-> "issue", update |-> [labels |-> updates]]

LInit ==
    /\ lAdd = NoList
    /\ lRemove = NoList
    /\ lRequests = <<>>
    /\ lOutcome = "none"

\* update_labels(issue_key, add=..., remove=...); the PUT is answered or fails
UpdateLabels ==
    /\ lOutcome = "none"
    /\ \E a \in LabelLists, r \in LabelLists, answered \in BOOLEAN :
         LET updates == LabelUpdates(a, r) IN
         /\ lAdd' = a
         /\ lRemove' = r
         /\ IF updates = <<>>
            THEN /\ lRequests' = lRequests
                 /\ lOutcome' = "returned"
            ELSE /\ lRequests' = Append(lRequests, LabelsPut(updates))
                 /\ lOutcome' = IF answered THEN "returned" ELSE "integration_error"
    /\ UNCHANGED exceptL

LNext == UpdateLabels

LIdle == LInit

-----------------------------------------------------------------------------
(* JiraService._find_service_desk_id *)

SERVICE_DESK_PAGE_LIMIT == 50

\* _servicedesk_get passes no timeout to session.get
NoTimeout == 0

kOPS == <<"O", "P", "S">>
kOps == <<"o", "p", "s">>
kWEB == <<"W", "E", "B">>

ProjectKeys == {kOPS, kWEB}

\* entries of the service-desk listing: two desks of project OPS, one entry of
\* OPS that carries no id, one desk whose key differs from OPS by case only
SdEntries ==
    { [projectKey |-> kOPS, id |-> <<"7">>],
      [projectKey |-> kOPS, id |-> <<"5">>],
      [projectKey |-> kOPS, id |-> None],
      [projectKey |-> kOps, id |-> <<"8">>] }

\* the request _servicedesk_get sends: headers only, no timeout
ServiceDeskGet(path, s, lim) ==
    [api |-> "servicedesk", path |-> path, start |-> s, limit |-> lim, timeout |-> NoTimeout]

SdMatchesAnyCase(entry, key) == lower(entry.projectKey) = lower(key)

\* `entry.get("projectKey") == project_key`
SdMatches(entry, key) == entry.projectKey = key

\* the entry the scan of one page returns on: the first one that matches and
\* carries an id (0 when the scan falls through)
FirstServiceDesk(values, key) ==
    LET hits == { i \in DOMAIN values : SdMatches(values[i], key) /\ values[i].id # None }
    IN  IF hits = {} THEN 0 ELSE CHOOSE i \in hits : \A j \in hits : i <= j

SInit ==
    /\ project_key = None
    /\ sdpc = "idle"
    /\ sdStart = 0
    /\ sdResponses = <<>>
    /\ sdResult = None
    /\ sdOutcome = "none"

\* _find_service_desk_id(project_key): start = 0
FindServiceDeskId ==
    /\ sdpc = "idle"
    /\ \E key \in ProjectKeys : project_key' = key
    /\ sdpc' = "loop"
    /\ sdStart' = 0
    /\ UNCHANGED <<sdResponses, sdResult, sdOutcome>>
    /\ UNCHANGED exceptS

\* one iteration of the loop: request a page, scan it, return / stop / advance
ServiceDeskPage ==
    /\ sdpc = "loop"
    /\ Len(sdResponses) < MaxSdRequests
    /\ \E values \in SeqsUpTo(SdEntries, MaxSdPage), isLastPage \in BOOLEAN :
         LET hit == FirstServiceDesk(values, project_key) IN
         /\ sdResponses' = Append(sdResponses,
                [request |-> ServiceDeskGet("servicedesk", sdStart, SERVICE_DESK_PAGE_LIMIT),
                 answered |-> TRUE, values |-> values, isLastPage |-> isLastPage])
         /\ IF hit # 0
            THEN /\ sdResult' = values[hit].id
                 /\ sdOutcome' = "returned"
                 /\ sdpc' = "done"
                 /\ sdStart' = sdStart
            ELSE IF isLastPage \/ values = <<>>
            THEN /\ sdOutcome' = "not_found"
                 /\ sdpc' = "done"
                 /\ UNCHANGED <<sdResult, sdStart>>
            ELSE /\ sdStart' = sdStart + Len(values)
                 /\ UNCHANGED <<sdResult, sdOutcome, sdpc>>
    /\ UNCHANGED project_key
    /\ UNCHANGED exceptS

\* the request fails: _servicedesk_get raises IntegrationError
SdRequestFails ==
    /\ sdpc = "loop"
    /\ Len(sdResponses) < MaxSdRequests
    /\ sdResponses' = Append(sdResponses,
           [request |-> ServiceDeskGet("servicedesk", sdStart, SERVICE_DESK_PAGE_LIMIT),
            answered |-> FALSE, values |-> <<>>, isLastPage |-> FALSE])
    /\ sdOutcome' = "integration_error"
    /\ sdpc' = "done"
    /\ UNCHANGED <<project_key, sdStart, sdResult>>
    /\ UNCHANGED exceptS

SNext ==
    \/ FindServiceDeskId
    \/ ServiceDeskPage
    \/ SdRequestFails

SIdle == SInit

-----------------------------------------------------------------------------
(* JiraService._fetch_queue_issues, JiraService._fetch_queue_issue_keys *)

DEFAULT_TIMEOUT == 10

\* settings.timeout: not set, or a number of seconds
SettingsTimeouts == {NoTimeout, 30}

\* `self.timeout = timeout or 10`
ClientTimeout(timeout) == IF timeout = NoTimeout THEN DEFAULT_TIMEOUT ELSE timeout

kA == <<"O", "P", "S", "-", "1">>
kB == <<"O", "P", "S", "-", "2">>

\* entries of the queue's issue listing; one of them carries no issue key
KeyEntries == { [issueKey |-> kA], [issueKey |-> kB], [issueKey |-> None] }

qId == <<"1", "2">>
qJql == <<"p", "r", "o", "j", "e", "c", "t", "=", "O", "P", "S">>

QueueIdentifiers == {<<>>, qId}

ServiceDeskIds == {None, <<"7">>}

\* what _find_queue_info can return: the matched entry, with or without a query
QueueInfos ==
    { [jql |-> qJql, queueId |-> qId],
      [jql |-> <<>>, queueId |-> qId],
      [jql |-> None, queueId |-> qId] }

NoQueueInfo == [jql |-> None, queueId |-> None]

\* what the search can answer
SearchResults == { <<>>, <<kA>>, <<kB, kA>> }

\* a request made through JiraClient._request: it carries the client's timeout
RestGet(path, arg, lim) ==
    [api |-> "rest", path |-> path, arg |-> arg, start |-> 0, limit |-> lim,
     timeout |-> clientTimeout]

Answer(request, values, isLastPage) ==
    [request |-> request, answered |-> TRUE, values |-> values, isLastPage |-> isLastPage]

Failure(request) ==
    [request |-> request, answered |-> FALSE, values |-> <<>>, isLastPage |-> FALSE]

\* the page the upstream answers for (start, limit)
KeyPage(s, lim) ==
    LET n == Min(Min(lim, serverCap), IF Len(queueEntries) > s THEN Len(queueEntries) - s ELSE 0)
    IN  [values |-> SubSeq(queueEntries, s + 1, s + n),
         isLastPage |-> s + n >= Len(queueEntries)]

\* the issue keys one page adds to `collected`
PageKeys(values) ==
    LET kept == SelectSeq(values, LAMBDA entry : Truthy(entry.issueKey))
    IN  [i \in 1..Len(kept) |-> kept[i].issueKey]

FallsBackAlways(found) == TRUE

\* `if not issues`
FallsBack(found) == found = <<>>

KeepFetchedFirst(found, issue) == <<issue>> \o found

\* `issues.append(self.client.get_issue(key))`
KeepFetched(found, issue) == Append(found, issue)

QInit ==
    /\ queueEntries \in SeqsUpTo(KeyEntries, MaxQueueSize)
    /\ serverCap \in 1..MaxServerCap
    /\ clientTimeout \in { ClientTimeout(timeout) : timeout \in SettingsTimeouts }
    /\ queue_identifier = None
    /\ service_desk_id = None
    /\ qLimit = 0
    /\ qpc = "idle"
    /\ sd_id_str = None
    /\ queue_info = NoQueueInfo
    /\ issues = <<>>
    /\ issue_keys = <<>>
    /\ keyStart = 0
    /\ keyIndex = 1
    /\ qRequests = <<>>
    /\ qOutcome = "none"

QUpstream == <<queueEntries, serverCap, clientTimeout>>

QArgs == <<queue_identifier, service_desk_id, qLimit>>

\* _fetch_queue_issues(...): the queue id is required; a given service desk id is used as is
FetchQueueIssues ==
    /\ qpc = "idle"
    /\ \E q \in QueueIdentifiers, sd \in ServiceDeskIds, lim \in 1..MaxQueueLimit :
         /\ queue_identifier' = q
         /\ service_desk_id' = sd
         /\ qLimit' = lim
         /\ IF ~Truthy(q)
            THEN /\ qOutcome' = "integration_error"
                 /\ qpc' = "done"
                 /\ sd_id_str' = sd_id_str
            ELSE /\ qOutcome' = qOutcome
                 /\ qpc' = IF sd # None THEN "find_queue" ELSE "find_sd"
                 /\ sd_id_str' = sd
    /\ UNCHANGED <<QUpstream, queue_info, issues, issue_keys, keyStart, keyIndex, qRequests>>
    /\ UNCHANGED exceptQ

\* sd_id_str = self._find_service_desk_id(project_key): an id, or an error
\* (not found, or a failed request); its first request is logged
QFindServiceDeskId ==
    /\ qpc = "find_sd"
    /\ \E found \in BOOLEAN :
         LET request == ServiceDeskGet("servicedesk", 0, SERVICE_DESK_PAGE_LIMIT) IN
         IF found
         THEN /\ \E entry \in { e \in SdEntries : e.id # None } : sd_id_str' = entry.id
              /\ qRequests' = Append(qRequests, Answer(request, <<>>, FALSE))
              /\ qpc' = "find_queue"
              /\ qOutcome' = qOutcome
         ELSE /\ qRequests' = Append(qRequests, Failure(request))
              /\ qpc' = "done"
              /\ qOutcome' = "integration_error"
              /\ sd_id_str' = sd_id_str
    /\ UNCHANGED <<QUpstream, QArgs, queue_info, issues, issue_keys, keyStart, keyIndex>>
    /\ UNCHANGED exceptQ

\* queue_info = self._find_queue_info(sd_id_str, queue_identifier): the matched
\* entry, or an error; its first request is logged.  issues = []; with a query
\* the search comes next, without one the `if not issues` branch
QFindQueueInfo ==
    /\ qpc = "find_queue"
    /\ \E found \in BOOLEAN :
         LET request == ServiceDeskGet("queue", 0, SERVICE_DESK_PAGE_LIMIT) IN
         IF found
         THEN /\ \E info \in QueueInfos :
                   /\ queue_info' = info
                   /\ qpc' = IF Truthy(info.jql) THEN "search"
                             ELSE IF FallsBack(<<>>) THEN "keys" ELSE "return"
              /\ qRequests' = Append(qRequests, Answer(request, <<>>, FALSE))
              /\ qOutcome' = qOutcome
         ELSE /\ qRequests' = Append(qRequests, Failure(request))
              /\ qpc' = "done"
              /\ qOutcome' = "integration_error"
              /\ queue_info' = queue_info
    /\ issues' = <<>>
    /\ UNCHANGED <<QUpstream, QArgs, sd_id_str, issue_keys, keyStart, keyIndex>>
    /\ UNCHANGED exceptQ

\* issues = self.client.search_issues(jql=queue_jql, max_results=limit); then `if not issues`
SearchIssues ==
    /\ qpc = "search"
    /\ LET request == RestGet("search", queue_info.jql, qLimit) IN
       \/ \E found \in SearchResults :
            /\ qRequests' = Append(qRequests, Answer(request, found, FALSE))
            /\ issues' = found
            /\ qpc' = IF FallsBack(found) THEN "keys" ELSE "return"
            /\ qOutcome' = qOutcome
       \/ /\ qRequests' = Append(qRequests, Failure(request))
          /\ qpc' = "done"
          /\ qOutcome' = "integration_error"
          /\ issues' = issues
    /\ UNCHANGED <<QUpstream, QArgs, sd_id_str, queue_info, issue_keys, keyStart, keyIndex>>
    /\ UNCHANGED exceptQ

\* _fetch_queue_issue_keys: `while len(collected) < limit` is false
KeysLimitReached ==
    /\ qpc = "keys"
    /\ ~(Len(issue_keys) < qLimit)
    /\ qpc' = "fetch"
    /\ UNCHANGED <<QUpstream, QArgs, sd_id_str, queue_info, issues, issue_keys, keyStart,
                   keyIndex, qRequests, qOutcome>>
    /\ UNCHANGED exceptQ

\* _fetch_queue_issue_keys: one iteration of the loop
KeysPage ==
    /\ qpc = "keys"
    /\ Len(issue_keys) < qLimit
    /\ LET page_limit == Min(SERVICE_DESK_PAGE_LIMIT, qLimit - Len(issue_keys))
           request == ServiceDeskGet("queue_issue", keyStart, page_limit)
           page == KeyPage(keyStart, page_limit)
       IN  \/ /\ qRequests' = Append(qRequests, Answer(request, page.values, page.isLastPage))
              /\ issue_keys' = issue_keys \o PageKeys(page.values)
              /\ IF page.isLastPage \/ page.values = <<>>
                 THEN /\ qpc' = "fetch"
                      /\ keyStart' = keyStart
                 ELSE /\ qpc' = "keys"
                      /\ keyStart' = keyStart + Len(page.values)
              /\ qOutcome' = qOutcome
           \/ /\ qRequests' = Append(qRequests, Failure(request))
              /\ qpc' = "done"
              /\ qOutcome' = "integration_error"
              /\ UNCHANGED <<issue_keys, keyStart>>
    /\ UNCHANGED <<QUpstream, QArgs, sd_id_str, queue_info, issues, keyIndex>>
    /\ UNCHANGED exceptQ

\* `for key in issue_keys`: get_issue(key); an IntegrationError skips the key
GetQueueIssue ==
    /\ qpc = "fetch"
    /\ keyIndex <= Len(issue_keys)
    /\ LET key == issue_keys[keyIndex]
           request == RestGet("issue", key, 0)
       IN  \/ /\ qRequests' = Append(qRequests, Answer(request, <<key>>, FALSE))
              /\ issues' = KeepFetched(issues, key)
           \/ /\ qRequests' = Append(qRequests, Failure(request))
              /\ issues' = issues
    /\ keyIndex' = keyIndex + 1
    /\ UNCHANGED <<QUpstream, QArgs, qpc, sd_id_str, queue_info, issue_keys, keyStart, qOutcome>>
    /\ UNCHANGED exceptQ

\* `return issues, queue_info`
QueueIssuesReturn ==
    /\ \/ qpc = "return"
       \/ qpc = "fetch" /\ keyIndex > Len(issue_keys)
    /\ qpc' = "done"
    /\ qOutcome' = "returned"
    /\ UNCHANGED <<QUpstream, QArgs, sd_id_str, queue_info, issues, issue_keys, keyStart,
                   keyIndex, qRequests>>
    /\ UNCHANGED exceptQ

QNext ==
    \/ FetchQueueIssues
    \/ QFindServiceDeskId
    \/ QFindQueueInfo
    \/ SearchIssues
    \/ KeysLimitReached
    \/ KeysPage
    \/ GetQueueIssue
    \/ QueueIssuesReturn

QIdle ==
    /\ queueEntries = <<>>
    /\ serverCap = 1
    /\ clientTimeout = DEFAULT_TIMEOUT
    /\ queue_identifier = None
    /\ service_desk_id = None
    /\ qLimit = 0
    /\ qpc = "idle"
    /\ sd_id_str = None
    /\ queue_info = NoQueueInfo
    /\ issues = <<>>
    /\ issue_keys = <<>>
    /\ keyStart = 0
    /\ keyIndex = 1
    /\ qRequests = <<>>
    /\ qOutcome = "none"

-----------------------------------------------------------------------------
(* connect_jira, connect_confluence and the client constructors *)

uBase == <<"h", ":", "/", "/", "j">>
uBaseSlash == <<"h", ":", "/", "/", "j", "/">>
uUser == <<"b", "o", "t">>
uPassword == <<"p", "w">>

\* "client_error" is the error type of the client in use: IntegrationError for
\* Jira, ConfluenceError for Confluence
ClientKinds == {"jira", "confluence"}

ConnectSettings ==
    [base_url : {<<>>, uBase, uBaseSlash}, username : {<<>>, uUser},
     password : {<<>>, uPassword}, timeout : SettingsTimeouts]

RECURSIVE rstrip(_, _)
\* str.rstrip(c)
rstrip(s, c) ==
    IF s # <<>> /\ s[Len(s)] = c THEN rstrip(SubSeq(s, 1, Len(s) - 1), c) ELSE s

NoClient == [base_url |-> None, timeout |-> NoTimeout]

\* the constructor: `if not base_url or not username or not password: raise`
ValidSettings(settings) ==
    Truthy(settings.base_url) /\ Truthy(settings.username) /\ Truthy(settings.password)

\* the fields the constructor sets
NewClient(settings) ==
    [base_url |-> rstrip(settings.base_url, "/"), timeout |-> ClientTimeout(settings.timeout)]

\* how the body of the `with` statement can end
BodyOutcomes == {"returned", "client_error", "other_error"}

\* what client.close() can do: return, or raise the client's error type
CloseOutcomes == {"returned", "client_error"}

PropagatedWithCloseError(body, close) ==
    IF close # "returned" THEN close ELSE IF body = "returned" THEN "none" ELSE body

\* what leaves the `finally` block: contextlib.suppress swallows the error of
\* close(), the exception of the body is re-raised
Propagated(body, close) == IF body = "returned" THEN "none" ELSE body

KInit ==
    /\ kKind = "jira"
    /\ kSettings = [base_url |-> <<>>, username |-> <<>>, password |-> <<>>, timeout |-> NoTimeout]
    /\ kClient = NoClient
    /\ session = "none"
    /\ kpc = "idle"
    /\ bodyOutcome = "none"
    /\ closeAttempts = 0
    /\ closeOutcome = "none"
    /\ kRaised = "none"

\* `with connect_xxx(settings)`: the client is constructed (or the constructor raises)
ConstructClient ==
    /\ kpc = "idle"
    /\ \E kind \in ClientKinds, settings \in ConnectSettings :
         /\ kKind' = kind
         /\ kSettings' = settings
         /\ IF ValidSettings(settings)
            THEN /\ kClient' = NewClient(settings)
                 /\ session' = "open"
                 /\ kpc' = "connect"
                 /\ kRaised' = kRaised
            ELSE /\ kRaised' = "client_error"
                 /\ kpc' = "done"
                 /\ UNCHANGED <<kClient, session>>
    /\ UNCHANGED <<bodyOutcome, closeAttempts, closeOutcome>>
    /\ UNCHANGED exceptK

\* client.connect(), before the try block: it returns, or its request fails
ConnectClient ==
    /\ kpc = "connect"
    /\ \E answered \in BOOLEAN :
         IF answered
         THEN /\ kpc' = "body"
              /\ kRaised' = kRaised
         ELSE /\ kpc' = "done"
              /\ kRaised' = "client_error"
    /\ UNCHANGED <<kKind, kSettings, kClient, session, bodyOutcome, closeAttempts, closeOutcome>>
    /\ UNCHANGED exceptK

\* `yield client`: the body of the `with` statement runs and ends
RunBody ==
    /\ kpc = "body"
    /\ \E ended \in BodyOutcomes : bodyOutcome' = ended
    /\ kpc' = "finally"
    /\ UNCHANGED <<kKind, kSettings, kClient, session, closeAttempts, closeOutcome, kRaised>>
    /\ UNCHANGED exceptK

\* the finally block: client.close() under contextlib.suppress, then the exit
CloseClient ==
    /\ kpc = "finally"
    /\ \E close \in CloseOutcomes :
         /\ closeOutcome' = close
         /\ session' = IF close = "returned" THEN "closed" ELSE session
         /\ kRaised' = Propagated(bodyOutcome, close)
    /\ closeAttempts' = closeAttempts + 1
    /\ kpc' = "done"
    /\ UNCHANGED <<kKind, kSettings, kClient, bodyOutcome>>
    /\ UNCHANGED exceptK

KNext ==
    \/ ConstructClient
    \/ ConnectClient
    \/ RunBody
    \/ CloseClient

KIdle == KInit

-----------------------------------------------------------------------------
(* confluence/service.py: storage markup, its parse tree, extract_heading_section *)

\* Markup is a sequence of tokens: start tags (with the ac:name attribute, if
\* any), end tags and text.  Tag names are written as in the markup.
OpenTag(tag, name) == [kind |-> "open", tag |-> tag, name |-> name, text |-> <<>>]
CloseTag(tag) == [kind |-> "close", tag |-> tag, name |-> None, text |-> <<>>]
TextToken(s) == [kind |-> "text", tag |-> <<>>, name |-> None, text |-> s]

\* the value None where markup is expected
AbsentMarkup == <<[kind |-> "absent", tag |-> <<>>, name |-> None, text |-> <<>>]>>

NS_AC == <<"http://atlassian.com/content">>
NS_RI == <<"http://atlassian.com/resource/identifier">>

tRoot == <<"r", "o", "o", "t">>
tH1 == <<"h", "1">>
tH2uc == <<"H", "2">>
tHr == <<"h", "r">>
tP == <<"p">>
tDiv == <<"d", "i", "v">>
tMacro == <<"a", "c", ":", "s", "t", "r", "u", "c", "t", "u", "r", "e", "d", "-",
            "m", "a", "c", "r", "o">>
tUnbound == <<"x", ":", "p">>

xNotes == <<"N", "o", "t", "e", "s">>
xNotesSpaced == <<" ", "N", "O", "T", "E", "S", " ">>
xText == <<"x">>
xJira == <<"J", "i", "r", "a">>

\* position of the first occurrence of character c in s (0 when absent)
IndexOf(s, c) ==
    LET at == { i \in DOMAIN s : s[i] = c }
    IN  IF at = {} THEN 0 ELSE CHOOSE i \in at : \A j \in at : i <= j

\* the namespace a prefix is bound to by _wrap_storage (<<>> when unbound)
PrefixUri(prefix) ==
    IF prefix = <<"a", "c">> THEN NS_AC
    ELSE IF prefix = <<"r", "i">> THEN NS_RI
    ELSE <<>>

\* a tag with a prefix the wrapper does not declare is a parse error
BoundTag(tag) ==
    LET colon == IndexOf(tag, ":")
    IN  colon = 0 \/ PrefixUri(SubSeq(tag, 1, colon - 1)) # <<>>

\* the tag of the parsed element: "{uri}local" for a prefixed name
QualifiedTag(tag) ==
    LET colon == IndexOf(tag, ":")
    IN  IF colon = 0 THEN tag
        ELSE <<"{">> \o PrefixUri(SubSeq(tag, 1, colon - 1)) \o <<"}">>
             \o SubSeq(tag, colon + 1, Len(tag))

\* _wrap_storage
WrapStorage(raw) == <<OpenTag(tRoot, None)>> \o raw \o <<CloseTag(tRoot)>>

NoTree == <<>>

RECURSIVE ParseFrom(_, _, _, _, _)
\* The XML parser.  nodes: the elements in document order, each with its
\* parent (0 for the root), its text and its tail; open: the elements not yet
\* closed; closed: the child closed last inside the innermost open element.
\* The result is the node list, or NoTree for a parse error.
ParseFrom(tokens, i, nodes, open, closed) ==
    IF i > Len(tokens)
    THEN IF open = <<>> THEN nodes ELSE NoTree
    ELSE
      LET tk == tokens[i]
          top == IF open = <<>> THEN 0 ELSE open[Len(open)]
      IN  IF nodes # <<>> /\ open = <<>> THEN NoTree
          ELSE IF tk.kind = "open"
          THEN IF ~BoundTag(tk.tag) THEN NoTree
               ELSE ParseFrom(tokens, i + 1,
                        Append(nodes, [tag |-> QualifiedTag(tk.tag), name |-> tk.name,
                                       parent |-> top, text |-> <<>>, tail |-> <<>>]),
                        Append(open, Len(nodes) + 1), 0)
          ELSE IF tk.kind = "close"
          THEN IF top = 0 \/ ~BoundTag(tk.tag) THEN NoTree
               ELSE IF nodes[top].tag # QualifiedTag(tk.tag) THEN NoTree
               ELSE ParseFrom(tokens, i + 1, nodes, SubSeq(open, 1, Len(open) - 1), top)
          ELSE IF tk.kind = "text"
          THEN IF top = 0 THEN NoTree
               ELSE IF closed = 0
               THEN ParseFrom(tokens, i + 1,
                        [nodes EXCEPT ![top].text = @ \o tk.text], open, closed)
               ELSE ParseFrom(tokens, i + 1,
                        [nodes EXCEPT ![closed].tail = @ \o tk.text], open, closed)
          ELSE NoTree

\* ET.fromstring: the tree, or ParseError
fromstring(tokens) ==
    LET nodes == ParseFrom(tokens, 1, <<>>, <<>>, 0)
    IN  IF nodes = NoTree THEN [error |-> "ParseError", root |-> NoTree]
        ELSE [error |-> "none", root |-> nodes]

ParseStorageUncaught(raw) ==
    IF raw = AbsentMarkup \/ raw = <<>> THEN [error |-> "none", root |-> NoTree]
    ELSE fromstring(WrapStorage(raw))

\* _parse_storage: None for absent, empty or unparsable markup
ParseStorage(raw) ==
    IF raw = AbsentMarkup \/ raw = <<>> THEN [error |-> "none", root |-> NoTree]
    ELSE LET parsed == fromstring(WrapStorage(raw))
         IN  IF parsed.error = "ParseError" THEN [error |-> "none", root |-> NoTree]
             ELSE parsed

IsSpace(c) == c \in {" ", "\t", "\n"}

RECURSIVE JoinWords(_, _, _)
\* " ".join(value.split()), built character by character
JoinWords(s, i, out) ==
    IF i > Len(s) THEN out
    ELSE IF IsSpace(s[i])
         THEN JoinWords(s, i + 1, IF out = <<>> \/ out[Len(out)] = " " THEN out
                                  ELSE Append(out, " "))
         ELSE JoinWords(s, i + 1, Append(out, s[i]))

\* str.strip() of a string whose only whitespace is single blanks between words
StripEnd(s) == IF s # <<>> /\ s[Len(s)] = " " THEN SubSeq(s, 1, Len(s) - 1) ELSE s

\* _normalize_text
NormalizeText(value) ==
    IF value = None \/ value = <<>> THEN <<>> ELSE StripEnd(JoinWords(value, 1, <<>>))

\* _strip_tag: the part after the first "}"
StripTag(tag) == SubSeq(tag, IndexOf(tag, "}") + 1, Len(tag))

\* list(parent): the children of element p, in order
Children(nodes, p) == SelectSeq([i \in 1..Len(nodes) |-> i], LAMBDA i : nodes[i].parent = p)

RECURSIVE IterText(_, _)
RECURSIVE ChildrenText(_, _, _)
\* "".join(node.itertext()): the text of the element, then for every child its
\* itertext followed by its tail
IterText(nodes, n) == nodes[n].text \o ChildrenText(nodes, Children(nodes, n), 1)

ChildrenText(nodes, kids, k) ==
    IF k > Len(kids) THEN <<>>
    ELSE IterText(nodes, kids[k]) \o nodes[kids[k]].tail \o ChildrenText(nodes, kids, k + 1)

\* {f"h{idx}" for idx in range(1, 7)}
heading_tags == { <<"h", d>> : d \in {"1", "2", "3", "4", "5", "6"} }

IsHeading(nodes, n) == lower(StripTag(nodes[n].tag)) \in heading_tags

RECURSIVE IterHeadings(_, _)
\* _iter_headings: for every element in document order, its heading children
IterHeadings(nodes, p) ==
    IF p > Len(nodes) THEN <<>>
    ELSE SelectSeq(Children(nodes, p), LAMBDA c : IsHeading(nodes, c))
         \o IterHeadings(nodes, p + 1)

\* the test that ends the section at a following sibling
EndsSection(nodes, n) ==
    LET tag == StripTag(nodes[n].tag)
    IN  startswith(lower(tag), <<"h">>) /\ Len(tag) = 2

\* the name under which ET.tostring writes a qualified tag
WrittenTag(tag) ==
    LET brace == IndexOf(tag, "}")
    IN  IF brace = 0 THEN tag
        ELSE (IF SubSeq(tag, 2, brace - 1) = NS_AC THEN <<"a", "c", ":">> ELSE <<"r", "i", ":">>)
             \o SubSeq(tag, brace + 1, Len(tag))

TextOrNothing(s) == IF s = <<>> THEN <<>> ELSE <<TextToken(s)>>

RECURSIVE Serialize(_, _)
RECURSIVE SerializeAll(_, _, _)
\* ET.tostring(elem): the element with its content, followed by its tail
Serialize(nodes, n) ==
    <<OpenTag(WrittenTag(nodes[n].tag), nodes[n].name)>>
    \o TextOrNothing(nodes[n].text)
    \o SerializeAll(nodes, Children(nodes, n), 1)
    \o <<CloseTag(WrittenTag(nodes[n].tag))>>
    \o TextOrNothing(nodes[n].tail)

\* _serialize_elements
SerializeAll(nodes, elements, k) ==
    IF k > Len(elements) THEN <<>>
    ELSE Serialize(nodes, elements[k]) \o SerializeAll(nodes, elements, k + 1)

NoSection == <<>>

RECURSIVE CollectSiblings(_, _, _)
\* the loop over siblings[index + 1:]: stop at the first one that ends the section
CollectSiblings(nodes, siblings, k) ==
    IF k > Len(siblings) \/ EndsSection(nodes, siblings[k]) THEN <<>>
    ELSE <<siblings[k]>> \o CollectSiblings(nodes, siblings, k + 1)

\* the elements extract_heading_section collects (<<>> when no heading matches)
SectionElements(nodes, wanted) ==
    LET target == lower(NormalizeText(wanted))
        headings == IterHeadings(nodes, 1)
        hits == { k \in DOMAIN headings :
                      lower(NormalizeText(IterText(nodes, headings[k]))) = target }
    IN  IF hits = {} THEN <<>>
        ELSE LET heading == headings[CHOOSE k \in hits : \A j \in hits : k <= j]
                 siblings == Children(nodes, nodes[heading].parent)
                 at == CHOOSE k \in DOMAIN siblings : siblings[k] = heading
             IN  <<heading>> \o CollectSiblings(nodes, siblings, at + 1)

\* extract_heading_section, given the parsed root
HeadingSection(root, wanted) ==
    IF root = NoTree THEN NoSection
    ELSE SerializeAll(root, SectionElements(root, wanted), 1)

-----------------------------------------------------------------------------
(* confluence/service.py: macros, headers, tables; utils.py: extract_issue_key *)

RECURSIVE IsUnder(_, _, _)
\* element n lies below element a
IsUnder(nodes, n, a) ==
    /\ nodes[n].parent # 0
    /\ (nodes[n].parent = a \/ IsUnder(nodes, nodes[n].parent, a))

\* a.findall(".//tag"): the descendants of a with that tag, in document order
FindAll(nodes, a, tag) ==
    SelectSeq([i \in 1..Len(nodes) |-> i],
              LAMBDA n : IsUnder(nodes, n, a) /\ nodes[n].tag = tag)

tStructuredMacro == <<"{">> \o NS_AC \o <<"}">> \o SubSeq(tMacro, 4, Len(tMacro))
tParameter == <<"{">> \o NS_AC \o <<"}", "p", "a", "r", "a", "m", "e", "t", "e", "r">>

\* node.attrib.get("{NS_AC}name") or node.attrib.get("ac:name"): the parser
\* stores the ac:name attribute under its qualified name
NameAttr(nodes, n) == nodes[n].name

\* extract_macro_contents, given the parsed root
MacroContents(root, wanted_name) ==
    IF root = NoTree THEN <<>>
    ELSE LET wanted == lower(wanted_name)
             hits == SelectSeq(FindAll(root, 1, tStructuredMacro),
                               LAMBDA n : /\ Truthy(NameAttr(root, n))
                                          /\ lower(NameAttr(root, n)) = wanted)
         IN  [k \in 1..Len(hits) |-> Serialize(root, hits[k])]

RECURSIVE HeadersFrom(_, _)
\* _extract_headers: an entry is built for every heading with text, and kept
\* only when its level is 1
HeadersFrom(nodes, n) ==
    IF n > Len(nodes) THEN <<>>
    ELSE LET tag == lower(StripTag(nodes[n].tag))
             text == NormalizeText(IterText(nodes, n))
         IN  (IF tag \in heading_tags /\ text # <<>> /\ tag[2] = "1"
              THEN <<[level |-> 1, text |-> text]>> ELSE <<>>)
             \o HeadersFrom(nodes, n + 1)

ExtractHeaders(root) == HeadersFrom(root, 1)

\* a dict is the sequence of its items in insertion order
HasKey(d, key) == \E i \in DOMAIN d : d[i].key = key

Get(d, key) ==
    IF HasKey(d, key) THEN d[CHOOSE i \in DOMAIN d : d[i].key = key].value ELSE None

\* d[key] = value
Put(d, key, value) ==
    IF HasKey(d, key)
    THEN [i \in DOMAIN d |-> IF d[i].key = key THEN [key |-> key, value |-> value] ELSE d[i]]
    ELSE Append(d, [key |-> key, value |-> value])

\* the values of a table key: one string, or a list of strings
One(value) == [list |-> FALSE, items |-> <<value>>]
Many(values) == [list |-> TRUE, items |-> values]

\* _merge_key_value
MergeKeyValue(target, key, value) ==
    IF ~HasKey(target, key) THEN Put(target, key, One(value))
    ELSE LET existing == Get(target, key)
         IN  IF existing = One(value) THEN target
             ELSE IF existing.list THEN Put(target, key, Many(Append(existing.items, value)))
             ELSE Put(target, key, Many(<<existing.items[1], value>>))

tTable == <<"t", "a", "b", "l", "e">>
tTr == <<"t", "r">>
tTh == <<"t", "h">>
tTd == <<"t", "d">>

\* the th and td children of a row
RowCells(nodes, row) ==
    SelectSeq(Children(nodes, row), LAMBDA c : lower(StripTag(nodes[c].tag)) \in {tTh, tTd})

RECURSIVE MergeRowsWithHeaders(_, _, _, _)
\* the loop without the header-row test
MergeRowsWithHeaders(nodes, rows, k, key_value) ==
    IF k > Len(rows) THEN key_value
    ELSE LET cellNodes == RowCells(nodes, rows[k])
             cells == [c \in 1..Len(cellNodes) |-> NormalizeText(IterText(nodes, cellNodes[c]))]
         IN  IF Len(cells) < 2 \/ cells[1] = <<>>
             THEN MergeRowsWithHeaders(nodes, rows, k + 1, key_value)
             ELSE MergeRowsWithHeaders(nodes, rows, k + 1,
                                       MergeKeyValue(key_value, cells[1], cells[2]))

RECURSIVE MergeRows(_, _, _, _)
\* the loop over node.findall(".//tr")
MergeRows(nodes, rows, k, key_value) ==
    IF k > Len(rows) THEN key_value
    ELSE LET cellNodes == RowCells(nodes, rows[k])
             cells == [c \in 1..Len(cellNodes) |-> NormalizeText(IterText(nodes, cellNodes[c]))]
             is_header_row == \E c \in 1..Len(cellNodes) :
                                  lower(StripTag(nodes[cellNodes[c]].tag)) = tTh
         IN  IF cells = <<>> \/ is_header_row \/ Len(cells) < 2 \/ cells[1] = <<>>
             THEN MergeRows(nodes, rows, k + 1, key_value)
             ELSE MergeRows(nodes, rows, k + 1, MergeKeyValue(key_value, cells[1], cells[2]))

RECURSIVE TablesFrom(_, _)
\* _extract_tables: tables without any entry are dropped
TablesFrom(nodes, n) ==
    IF n > Len(nodes) THEN <<>>
    ELSE (IF lower(StripTag(nodes[n].tag)) # tTable THEN <<>>
          ELSE LET key_value == MergeRows(nodes, FindAll(nodes, n, tTr), 1, <<>>)
               IN  IF key_value = <<>> THEN <<>> ELSE <<[key_value |-> key_value]>>)
         \o TablesFrom(nodes, n + 1)

ExtractTables(root) == TablesFrom(root, 1)

RECURSIVE Strip(_)
\* str.strip()
Strip(s) ==
    IF s = <<>> THEN s
    ELSE IF IsSpace(s[1]) THEN Strip(Tail(s))
    ELSE IF IsSpace(s[Len(s)]) THEN Strip(SubSeq(s, 1, Len(s) - 1))
    ELSE s

RECURSIVE ParamsFrom(_, _, _, _)
\* _extract_macro_params: the ac:parameter children with a name, later ones
\* overwriting earlier ones of the same name
ParamsFrom(nodes, kids, k, params) ==
    IF k > Len(kids) THEN params
    ELSE LET name == NameAttr(nodes, kids[k])
         IN  IF nodes[kids[k]].tag # tParameter \/ ~Truthy(name)
             THEN ParamsFrom(nodes, kids, k + 1, params)
             ELSE ParamsFrom(nodes, kids, k + 1,
                             Put(params, lower(Strip(name)),
                                 NormalizeText(IterText(nodes, kids[k]))))

ExtractMacroParams(nodes, n) == ParamsFrom(nodes, Children(nodes, n), 1, <<>>)

UpperTable ==
    [c \in {LowerAlpha[i] : i \in DOMAIN LowerAlpha} |->
        UpperAlpha[CHOOSE i \in DOMAIN LowerAlpha : LowerAlpha[i] = c]]

\* str.upper()
upper(s) == [i \in 1..Len(s) |-> IF s[i] \in DOMAIN UpperTable THEN UpperTable[s[i]] ELSE s[i]]

DigitChars == {"0", "1", "2", "3", "4", "5", "6", "7", "8", "9"}

\* [A-Z] under re.IGNORECASE
IsLetter(c) == c \in DOMAIN UpperTable \/ c \in DOMAIN LowerTable

RECURSIVE RunEnd(_, _, _)
\* the last position of the longest run of characters of set S read from i
\* (i - 1 when s[i] is not in S)
RunEnd(s, i, S) ==
    IF i <= Len(s) /\ s[i] \in S THEN RunEnd(s, i + 1, S) ELSE i - 1

AlnumChars == DOMAIN UpperTable \cup DOMAIN LowerTable \cup DigitChars

\* the end of the match of [A-Z][A-Z0-9]+-\d+ that starts at i (0 when none):
\* "-" is not in [A-Z0-9], so the letters-and-digits run must be the longest one
MatchEnd(s, i) ==
    IF ~IsLetter(s[i]) THEN 0
    ELSE LET run == RunEnd(s, i + 1, AlnumChars)
             digits == RunEnd(s, run + 2, DigitChars)
         IN  IF run >= i + 1 /\ run + 1 <= Len(s) /\ s[run + 1] = "-" /\ digits >= run + 2
             THEN digits ELSE 0

\* extract_issue_key: the leftmost match, upper-cased; None when there is none
extract_issue_key(raw) ==
    IF ~Truthy(raw) THEN None
    ELSE LET s == Strip(raw)
             starts == { i \in DOMAIN s : MatchEnd(s, i) # 0 }
         IN  IF starts = {} THEN None
             ELSE LET first == CHOOSE i \in starts : \A j \in starts : i <= j
                  IN  upper(SubSeq(s, first, MatchEnd(s, first)))

TokenSeparators == {",", "\n", ";"}

RECURSIVE SplitFrom(_, _, _)
\* re.split(r"[,\n;]+", raw): a run of separators separates once
SplitFrom(s, i, token) ==
    IF i > Len(s) THEN <<token>>
    ELSE IF s[i] \in TokenSeparators
         THEN IF i > 1 /\ s[i - 1] \in TokenSeparators THEN SplitFrom(s, i + 1, token)
              ELSE <<token>> \o SplitFrom(s, i + 1, <<>>)
         ELSE SplitFrom(s, i + 1, Append(token, s[i]))

RECURSIVE KeysOfTokensUnseen(_, _, _)
\* the inner loop without the `seen` set
KeysOfTokensUnseen(tokens, k, keys) ==
    IF k > Len(tokens) THEN keys
    ELSE LET key == extract_issue_key(tokens[k])
         IN  IF ~Truthy(key) THEN KeysOfTokensUnseen(tokens, k + 1, keys)
             ELSE KeysOfTokensUnseen(tokens, k + 1, Append(keys, key))

RECURSIVE KeysOfTokens(_, _, _)
\* the inner loop of _collect_issue_keys_from_params
KeysOfTokens(tokens, k, keys) ==
    IF k > Len(tokens) THEN keys
    ELSE LET key == extract_issue_key(tokens[k])
         IN  IF ~Truthy(key) \/ (\E j \in DOMAIN keys : keys[j] = key)
             THEN KeysOfTokens(tokens, k + 1, keys)
             ELSE KeysOfTokens(tokens, k + 1, Append(keys, key))

CandidateNames ==
    << <<"k", "e", "y">>, <<"i", "s", "s", "u", "e", "k", "e", "y">>,
       <<"i", "s", "s", "u", "e", "k", "e", "y", "s">>, <<"i", "s", "s", "u", "e", "s">> >>

RECURSIVE KeysOfParams(_, _, _)
\* _collect_issue_keys_from_params
KeysOfParams(params, c, keys) ==
    IF c > Len(CandidateNames) THEN keys
    ELSE LET raw == Get(params, CandidateNames[c])
         IN  IF ~Truthy(raw) THEN KeysOfParams(params, c + 1, keys)
             ELSE KeysOfParams(params, c + 1, KeysOfTokens(SplitFrom(raw, 1, <<>>), 1, keys))

CollectIssueKeysFromParams(params) == KeysOfParams(params, 1, <<>>)

JqlNames == << <<"j", "q", "l">>, <<"j", "q", "l", "q", "u", "e", "r", "y">> >>

\* the jql list of a jira macro
JqlOfParams(params) ==
    LET named == SelectSeq(JqlNames, LAMBDA c : Truthy(Get(params, c)))
    IN  [k \in 1..Len(named) |-> Get(params, named[k])]

xJiraLower == <<"j", "i", "r", "a">>

\* the entry _extract_macros builds for one macro; jira is <<>> when the entry
\* has no "jira" item
MacroEntry(nodes, n) ==
    LET name == NameAttr(nodes, n)
        params == ExtractMacroParams(nodes, n)
    IN  [name |-> name,
         parameters |-> params,
         jira |-> IF lower(name) = xJiraLower
                  THEN <<[issue_keys |-> CollectIssueKeysFromParams(params),
                          jql |-> JqlOfParams(params)]>>
                  ELSE <<>>]

\* _extract_macros
ExtractMacros(root) ==
    LET named == SelectSeq(FindAll(root, 1, tStructuredMacro),
                           LAMBDA n : Truthy(NameAttr(root, n)))
    IN  [k \in 1..Len(named) |-> MacroEntry(root, named[k])]

\* extract_storage_objects, given the parsed root
StorageObjects(root) ==
    IF root = NoTree THEN [titles |-> <<>>, tables |-> <<>>, macros |-> <<>>]
    ELSE [titles |-> ExtractHeaders(root),
          tables |-> ExtractTables(root),
          macros |-> ExtractMacros(root)]

-----------------------------------------------------------------------------
(* confluence/service.py: the markup inputs and the extraction calls *)

\* the elements the generated pages are built from: two headings with the same
\* normalized text, a paragraph, a rule, a container, a macro
NodeKinds ==
    { [tag |-> tH1, text |-> xNotes, name |-> None, container |-> FALSE],
      [tag |-> tH2uc, text |-> xNotesSpaced, name |-> None, container |-> FALSE],
      [tag |-> tP, text |-> xText, name |-> None, container |-> FALSE],
      [tag |-> tHr, text |-> <<>>, name |-> None, container |-> FALSE],
      [tag |-> tDiv, text |-> <<>>, name |-> None, container |-> TRUE],
      [tag |-> tMacro, text |-> <<>>, name |-> xJira, container |-> FALSE] }

\* the element a node of depth d at position i is nested in
Encloser(depths, i) ==
    CHOOSE j \in 1..(i - 1) :
        /\ depths[j] = depths[i] - 1
        /\ \A k \in (j + 1)..(i - 1) : depths[k] >= depths[i]

\* a page body of n elements: their kinds in document order and their nesting
\* depths; only a container has child elements
Outlines(n) ==
    { o \in [kinds : [1..n -> NodeKinds], depths : [1..n -> 1..n]] :
        /\ n > 0 => o.depths[1] = 1
        /\ \A i \in 2..n : o.depths[i] <= o.depths[i - 1] + 1
        /\ \A i \in 2..n : o.depths[i] > 1 => o.kinds[Encloser(o.depths, i)].container }

\* the end tags of the elements open beyond the first `keep`, innermost first
CloseDown(openTags, keep) ==
    [j \in 1..(Len(openTags) - keep) |-> CloseTag(openTags[Len(openTags) + 1 - j])]

RECURSIVE MarkupFrom(_, _, _)
\* the markup of an outline, written element by element
MarkupFrom(o, i, openTags) ==
    IF i > Len(o.kinds) THEN CloseDown(openTags, 0)
    ELSE LET keep == o.depths[i] - 1
         IN  CloseDown(openTags, keep)
             \o <<OpenTag(o.kinds[i].tag, o.kinds[i].name)>>
             \o TextOrNothing(o.kinds[i].text)
             \o MarkupFrom(o, i + 1, Append(SubSeq(openTags, 1, keep), o.kinds[i].tag))

WellFormedUpTo(n) == { MarkupFrom(o, 1, <<>>) : o \in UNION { Outlines(k) : k \in 0..n } }

tB == <<"b">>

\* pages written by hand: blank text only; a heading whose text is split by an
\* inline element, followed by text and a paragraph
ExtraMarkup ==
    { <<TextToken(<<" ", " ">>)>>,
      <<OpenTag(tH1, None), TextToken(<<"N", "o">>), OpenTag(tB, None), TextToken(<<"t">>),
        CloseTag(tB), TextToken(<<"e", "s">>), CloseTag(tH1), TextToken(xText),
        OpenTag(tP, None), CloseTag(tP)>> }

\* markup the parser rejects: the last end tag missing, an undeclared prefix,
\* a stray end tag of the wrapper
Malformed ==
    { SubSeq(m, 1, Len(m) - 1) : m \in WellFormedUpTo(MaxNodes - 1) \ {<<>>} }
    \cup { <<OpenTag(tUnbound, None), CloseTag(tUnbound)>>,
           <<CloseTag(tRoot), OpenTag(tP, None), CloseTag(tP)>> }

xK == <<"K">>
xJ == <<"J">>
xA == <<"A">>
xB == <<"B">>

Cell(tag, text) == <<OpenTag(tag, None)>> \o TextOrNothing(text) \o <<CloseTag(tag)>>

\* the rows the generated tables are built from: data rows of one key with two
\* values and of a second key, rows with a header cell in first and in second
\* place, a one-cell row, a row without key text, a three-cell row
RowKinds ==
    { Cell(tTd, xK) \o Cell(tTd, xA),
      Cell(tTd, xK) \o Cell(tTd, xB),
      Cell(tTd, xJ) \o Cell(tTd, xA),
      Cell(tTh, xK) \o Cell(tTd, xB),
      Cell(tTd, xJ) \o Cell(tTh, xB),
      Cell(tTd, xK),
      Cell(tTd, <<" ">>) \o Cell(tTd, xA),
      Cell(tTd, xJ) \o Cell(tTd, xB) \o Cell(tTd, xA) }

RECURSIVE RowsMarkup(_, _)
RowsMarkup(rows, k) ==
    IF k > Len(rows) THEN <<>>
    ELSE <<OpenTag(tTr, None)>> \o rows[k] \o <<CloseTag(tTr)>> \o RowsMarkup(rows, k + 1)

TableMarkup(rows) == <<OpenTag(tTable, None)>> \o RowsMarkup(rows, 1) \o <<CloseTag(tTable)>>

\* pages with one table of up to MaxRows rows, and pages with two one-row tables
TableMarkups ==
    { TableMarkup(rows) : rows \in SeqsUpTo(RowKinds, MaxRows) }
    \cup { TableMarkup(<<r1>>) \o TableMarkup(<<r2>>) : r1, r2 \in RowKinds }

Storages ==
    {AbsentMarkup} \cup WellFormedUpTo(MaxNodes) \cup ExtraMarkup \cup Malformed
    \cup TableMarkups

xWanted == <<"n", "o", "t", "e", "s", " ">>

Titles == {xWanted, xText}

NoObjects == [titles |-> <<>>, tables |-> <<>>, macros |-> <<>>]

PInit ==
    /\ storage \in Storages
    /\ title = None
    /\ macro_name = None
    /\ pOp = "none"
    /\ section = NoSection
    /\ contents = <<>>
    /\ objects = NoObjects
    /\ pOutcome = "none"

\* extract_heading_section(storage, title)
ExtractHeadingSection ==
    /\ pOp = "none"
    /\ \E wanted \in Titles :
         LET parsed == ParseStorage(storage) IN
         /\ title' = wanted
         /\ IF parsed.error # "none"
            THEN /\ pOutcome' = "raised"
                 /\ section' = section
            ELSE /\ pOutcome' = "returned"
                 /\ section' = HeadingSection(parsed.root, wanted)
    /\ pOp' = "heading"
    /\ UNCHANGED <<storage, macro_name, contents, objects>>
    /\ UNCHANGED exceptP

MacroNames == {xJiraLower, xText}

\* extract_macro_contents(storage, macro_name)
ExtractMacroContents ==
    /\ pOp = "none"
    /\ \E wanted \in MacroNames :
         LET parsed == ParseStorage(storage) IN
         /\ macro_name' = wanted
         /\ IF parsed.error # "none"
            THEN /\ pOutcome' = "raised"
                 /\ contents' = contents
            ELSE /\ pOutcome' = "returned"
                 /\ contents' = MacroContents(parsed.root, wanted)
    /\ pOp' = "macro"
    /\ UNCHANGED <<storage, title, section, objects>>
    /\ UNCHANGED exceptP

\* extract_storage_objects(storage)
ExtractStorageObjects ==
    /\ pOp = "none"
    /\ LET parsed == ParseStorage(storage) IN
         IF parsed.error # "none"
         THEN /\ pOutcome' = "raised"
              /\ objects' = objects
         ELSE /\ pOutcome' = "returned"
              /\ objects' = StorageObjects(parsed.root)
    /\ pOp' = "objects"
    /\ UNCHANGED <<storage, title, macro_name, section, contents>>
    /\ UNCHANGED exceptP

PNext ==
    \/ ExtractHeadingSection
    \/ ExtractMacroContents
    \/ ExtractStorageObjects

PIdle ==
    /\ storage = AbsentMarkup
    /\ title = None
    /\ macro_name = None
    /\ pOp = "none"
    /\ section = NoSection
    /\ contents = <<>>
    /\ objects = NoObjects
    /\ pOutcome = "none"

-----------------------------------------------------------------------------
(* confluence/service.py: _collect_issue_keys_from_params on parameter mappings *)

\* the pieces parameter values are written from: a key, the same key in lower
\* case after a blank, another key, a word that is no key
ValueTokens ==
    { <<"A", "B", "-", "1">>, <<" ", "a", "b", "-", "1">>, <<"C", "D", "-", "2">>,
      <<"b", "o", "g", "u", "s">> }

RECURSIVE ValuesOf(_)
\* the values of n pieces, a separator between two pieces; no piece: ""
ValuesOf(n) ==
    IF n = 0 THEN {<<>>}
    ELSE IF n = 1 THEN ValueTokens
    ELSE { v \o <<s>> \o tk : v \in ValuesOf(n - 1), s \in TokenSeparators, tk \in ValueTokens }

ParameterNames == { CandidateNames[c] : c \in DOMAIN CandidateNames } \cup { JqlNames[1] }

\* two different parameter names, in insertion order
NamePairs == { n \in ParameterNames \X ParameterNames : n[1] # n[2] }

\* how at most MaxKeyTokens pieces are shared between two values
PieceCounts ==
    { m \in (1..MaxKeyTokens) \X (1..MaxKeyTokens) : m[1] + m[2] <= MaxKeyTokens }

\* mappings of one or two parameters, in either insertion order, with at most
\* MaxKeyTokens pieces in all
ParameterMappings ==
    { <<[key |-> name, value |-> v]>> :
          name \in ParameterNames, v \in UNION { ValuesOf(n) : n \in 0..MaxKeyTokens } }
    \cup UNION { { <<[key |-> n[1], value |-> v1], [key |-> n[2], value |-> v2]>> :
                       n \in NamePairs, v1 \in ValuesOf(m[1]), v2 \in ValuesOf(m[2]) } :
                 m \in PieceCounts }

IInit ==
    /\ iParams \in ParameterMappings
    /\ iKeys = <<>>
    /\ iOutcome = "none"

\* _collect_issue_keys_from_params(params)
CollectIssueKeys ==
    /\ iOutcome = "none"
    /\ iKeys' = CollectIssueKeysFromParams(iParams)
    /\ iOutcome' = "returned"
    /\ UNCHANGED iParams
    /\ UNCHANGED exceptI

INext ==
    \/ CollectIssueKeys

IIdle ==
    /\ iParams = <<>>
    /\ iKeys = <<>>
    /\ iOutcome = "none"

-----------------------------------------------------------------------------
(* jira/client.py, confluence/client.py: _request and _extract_error *)

\* a JSON value of an error body: absent, a string, a list, an object; v holds
\* the string (<<>>: ""), the items, or the keys and values in turn; strs tells
\* whether every item of a list is a string
Absent == [t |-> "absent", v |-> <<>>, strs |-> TRUE]
Str(s) == [t |-> "str", v |-> s, strs |-> TRUE]
List(items, strs) == [t |-> "list", v |-> items, strs |-> strs]
Dict(items) == [t |-> "dict", v |-> items, strs |-> TRUE]

\* bool(value)
TruthyJson(value) == value.t # "absent" /\ value.v # <<>>

\* a or b
OrJson(a, b) == IF TruthyJson(a) THEN a ELSE b

MessageLists ==
    { List(items, TRUE) : items \in SeqsUpTo({"e1"}, MaxMessages) } \cup { List(<<"7">>, FALSE) }

\* the bodies of error responses: no JSON, JSON that is not an object, objects
\* with any of message, reason, errorMessages, errors
ErrorBodies ==
    { [json |-> j, message |-> Absent, reason |-> Absent, errorMessages |-> Absent,
       errors |-> Absent] : j \in {"invalid", "array", "null"} }
    \cup [json : {"object"},
          message : {Absent, Str(<<>>), Str(<<"m">>)},
          reason : {Absent, Str(<<"r">>)},
          errorMessages : {Absent} \cup MessageLists,
          errors : {Absent, Dict(<<>>), Dict(<<"f", "bad">>), Str(<<"text">>)}]

NoBody ==
    [json |-> "invalid", message |-> Absent, reason |-> Absent, errorMessages |-> Absent,
     errors |-> Absent]

\* what the upstream does: answers, fails below HTTP, or answers an error status
Responses ==
    { [net |-> "ok", status |-> "200", body |-> NoBody],
      [net |-> "failed", status |-> "", body |-> NoBody] }
    \cup [net : {"http_error"}, status : {"404", "500"}, body : ErrorBodies]

RECURSIVE Join(_, _, _)
\* sep.join(items), as the sequence of its pieces
Join(items, sep, k) ==
    IF k > Len(items) THEN <<>>
    ELSE (IF k > 1 THEN <<sep>> ELSE <<>>) \o <<items[k]>> \o Join(items, sep, k + 1)

\* [f"{k}: {v}" for k, v in messages.items()]
FormatItems(items) ==
    [k \in 1..(Len(items) \div 2) |-> items[2 * k - 1] \o ": " \o items[2 * k]]

ClientError(kind) == IF kind = "jira" THEN "IntegrationError" ELSE "ConfluenceError"

GenericMessage(kind, status) ==
    IF kind = "jira" THEN <<"Jira API call failed (", status, ")">>
    ELSE <<"Confluence API call failed (", status, ")">>

\* JiraClient._extract_error: the message, or the error the extraction raises
JiraExtractError(response) ==
    LET body == response.body
        generic == [error |-> "none", message |-> GenericMessage("jira", response.status)]
    IN  IF body.json = "invalid" THEN generic
        ELSE IF body.json # "object" THEN [error |-> "AttributeError", message |-> <<>>]
        ELSE LET messages == OrJson(body.errorMessages, body.errors)
             IN  IF messages.t = "list"
                 THEN IF messages.strs
                      THEN [error |-> "none", message |-> Join(messages.v, "; ", 1)]
                      ELSE [error |-> "TypeError", message |-> <<>>]
                 ELSE IF messages.t = "dict"
                 THEN [error |-> "none", message |-> Join(FormatItems(messages.v), "; ", 1)]
                 ELSE generic

\* ConfluenceClient._extract_error
ConfluenceExtractError(response) ==
    LET body == response.body
        generic == [error |-> "none",
                    message |-> GenericMessage("confluence", response.status)]
    IN  IF body.json = "invalid" THEN generic
        ELSE IF body.json # "object" THEN [error |-> "AttributeError", message |-> <<>>]
        ELSE LET message == OrJson(body.message, body.reason)
             IN  IF TruthyJson(message) THEN [error |-> "none", message |-> message.v]
                 ELSE generic

ExtractError(kind, response) ==
    IF kind = "jira" THEN JiraExtractError(response) ELSE ConfluenceExtractError(response)

NoError == [kind |-> "none", message |-> <<>>]

\* the error _request ends with for an error status
HttpError(kind, response) ==
    LET extracted == ExtractError(kind, response)
    IN  IF extracted.error # "none" THEN [kind |-> extracted.error, message |-> <<>>]
        ELSE [kind |-> ClientError(kind), message |-> extracted.message]

\* the error _request ends with for a failure below HTTP
NetworkError(kind) ==
    [kind |-> ClientError(kind),
     message |-> <<IF kind = "jira" THEN "Jira request failed: "
                   ELSE "Confluence request failed: ", "exc">>]

EInit ==
    /\ eKind \in ClientKinds
    /\ eResponse \in Responses
    /\ eAttempts = 0
    /\ eOutcome = "none"
    /\ eError = NoError

\* _request(method, path)
Request ==
    /\ eOutcome = "none"
    /\ eAttempts' = eAttempts + 1
    /\ IF eResponse.net = "ok"
       THEN /\ eOutcome' = "returned"
            /\ eError' = eError
       ELSE /\ eOutcome' = "raised"
            /\ eError' = IF eResponse.net = "failed" THEN NetworkError(eKind)
                         ELSE HttpError(eKind, eResponse)
    /\ UNCHANGED <<eKind, eResponse>>
    /\ UNCHANGED exceptE

ENext ==
    \/ Request

EIdle ==
    /\ eKind = "jira"
    /\ eResponse = [net |-> "ok", status |-> "200", body |-> NoBody]
    /\ eAttempts = 0
    /\ eOutcome = "none"
    /\ eError = NoError

-----------------------------------------------------------------------------
(* JiraService.fetch_issue_fields *)

BatchKeys == SeqsUpTo({kA, kB}, MaxBatch)

\* field_names: none, a display name, a missing name after an empty one, a
\* literal id, a display name twice around a missing one
BatchFieldNames ==
    { <<>>, <<fTeam>>, <<<<>>, fNope>>, <<fcf100, fTeam>>, <<fTeam, fNope, fTeam>> }

BatchFieldLists == { <<>>, <<[name |-> fTeam, id |-> fcf100]>> }

\* the field mappings of the issues the upstream answers with
BatchIssueFields == { <<>>, (fcf100 :> Value(1)), (fTeam :> Value(2)) }

IssueErrorMessage == <<"Issue Does Not Exist">>
FieldErrorMessage == <<"Jira request failed: exc">>

\* JiraIssue.get(name) (client.py 33-41) as a function of the client's cache:
\* the value or the error, the cache afterwards, whether the field list was
\* requested; ok = FALSE: that request raises
issue_get(cache, field_list, fields, key, name, ok) ==
    IF name \in DOMAIN fields
    THEN [outcome |-> "value", value |-> fields[name], cache |-> cache, requested |-> FALSE]
    ELSE LET r == resolve_field_id(cache, field_list, name)
         IN  IF r.requested /\ ~ok
             THEN [outcome |-> "IntegrationError", value |-> FieldErrorMessage,
                   cache |-> cache, requested |-> TRUE]
             ELSE IF Truthy(r.id) /\ r.id \in DOMAIN fields
             THEN [outcome |-> "value", value |-> fields[r.id], cache |-> r.cache,
                   requested |-> r.requested]
             ELSE [outcome |-> "FieldNotFoundError",
                   value |-> <<"Field '">> \o name \o <<"' not found on issue ">> \o key
                             \o <<".">>,
                   cache |-> r.cache, requested |-> r.requested]

\* a loop whose inner handler catches nothing
CatchesFieldNotFoundNever(kind) == FALSE

\* service.py 78: except FieldNotFoundError
CatchesFieldNotFound(kind) == kind = "FieldNotFoundError"

\* service.py 81: except IntegrationError (FieldNotFoundError is a subclass)
CatchesIntegrationError(kind) == kind \in {"IntegrationError", "FieldNotFoundError"}

\* service.py 64: [name for name in field_names if name]
NormalizedFieldNames(names) == SelectSeq(names, Truthy)

RECURSIVE FieldsLoop(_, _, _, _, _, _, _, _, _)
\* service.py 75-79: the loop over the names for one issue; it ends with the
\* fields of the entry, or with the error that leaves the loop and its message
FieldsLoop(cache, field_list, fields, key, names, k, entryFields, ok, requested) ==
    IF k > Len(names)
    THEN [error |-> "none", message |-> <<>>, fields |-> entryFields, cache |-> cache,
          requested |-> requested]
    ELSE LET got == issue_get(cache, field_list, fields, key, names[k], ok)
             asked == requested + (IF got.requested THEN 1 ELSE 0)
         IN  IF got.outcome = "value"
             THEN FieldsLoop(got.cache, field_list, fields, key, names, k + 1,
                             (names[k] :> got.value) @@ entryFields, ok, asked)
             ELSE IF CatchesFieldNotFound(got.outcome)
             THEN FieldsLoop(got.cache, field_list, fields, key, names, k + 1,
                             (names[k] :> None) @@ entryFields, ok, asked)
             ELSE [error |-> got.outcome, message |-> got.value, fields |-> entryFields,
                   cache |-> got.cache, requested |-> asked]

\* utils.py issue_url
issue_url(base_url, key) ==
    rstrip(base_url, "/") \o <<"/", "b", "r", "o", "w", "s", "e", "/">> \o key

BInit ==
    /\ bKeys \in BatchKeys
    /\ bNames \in BatchFieldNames
    /\ bFieldList \in BatchFieldLists
    /\ bCache = <<>>
    /\ bAt = 1
    /\ bResults = <<>>
    /\ bFailed = <<>>
    /\ bLog = <<>>
    /\ bOutcome = "none"

\* service.py 66-82: one iteration of the loop over the keys. The upstream
\* answers get_issue with an issue or an error, and answers or fails the
\* field-list requests of this iteration.
FetchIssue ==
    /\ bOutcome = "none"
    /\ bAt <= Len(bKeys)
    /\ \E issueOk \in BOOLEAN, fields \in BatchIssueFields, status \in {None, sOpen},
          listOk \in BOOLEAN :
         LET key == bKeys[bAt]
             loop == FieldsLoop(bCache, bFieldList, fields, key,
                                NormalizedFieldNames(bNames), 1, <<>>, listOk, 0)
             error == IF ~issueOk THEN "IntegrationError" ELSE loop.error
             message == IF ~issueOk THEN IssueErrorMessage ELSE loop.message
         IN  /\ ~issueOk => (fields = <<>> /\ status = None /\ listOk)
             /\ (issueOk /\ ~listOk) => loop.requested > 0
             /\ bLog' = Append(bLog, [key |-> key, issueOk |-> issueOk, fields |-> fields,
                                      status |-> status, listOk |-> listOk])
             /\ bCache' = IF issueOk THEN loop.cache ELSE bCache
             /\ IF error = "none"
                THEN /\ bResults' = Append(bResults,
                                           [key |-> key, url |-> issue_url(uBaseSlash, key),
                                            status |-> status, fields |-> loop.fields])
                     /\ UNCHANGED <<bFailed, bOutcome>>
                ELSE IF CatchesIntegrationError(error)
                THEN /\ bFailed' = Append(bFailed, [key |-> key, message |-> message])
                     /\ UNCHANGED <<bResults, bOutcome>>
                ELSE /\ bOutcome' = "raised"
                     /\ UNCHANGED <<bResults, bFailed>>
    /\ bAt' = bAt + 1
    /\ UNCHANGED <<bKeys, bNames, bFieldList>>
    /\ UNCHANGED exceptB

\* service.py 84: return results, failed
ReturnBatch ==
    /\ bOutcome = "none"
    /\ bAt > Len(bKeys)
    /\ bOutcome' = "returned"
    /\ UNCHANGED <<bKeys, bNames, bFieldList, bCache, bAt, bResults, bFailed, bLog>>
    /\ UNCHANGED exceptB

BNext ==
    \/ FetchIssue
    \/ ReturnBatch

BIdle ==
    /\ bKeys = <<>>
    /\ bNames = <<>>
    /\ bFieldList = <<>>
    /\ bCache = <<>>
    /\ bAt = 1
    /\ bResults = <<>>
    /\ bFailed = <<>>
    /\ bLog = <<>>
    /\ bOutcome = "none"

-----------------------------------------------------------------------------
(* ConfluenceService.fetch_targets *)

\* client.py 53: page_size: int = 50
DEFAULT_PAGE_SIZE == 50

RootPageId == <<"4", "2">>

\* the root page as get_page answers it; child pages are 1..childCount
RootPage == 0

\* str(exc) of a ConfluenceError: extracted from the error body, the generic
\* message, or the network failure text
ConfluenceMessages ==
    { <<"N", "o", "t", " ", "f", "o", "u", "n", "d">>,
      <<"C", "o", "n", "f", "l", "u", "e", "n", "c", "e", " ", "A", "P", "I", " ",
        "c", "a", "l", "l", " ", "f", "a", "i", "l", "e", "d", " ", "(", "5", "0", "0", ")">> }

\* a failure path that hands back what was received before the error
PagesAfterFailureKept(received) == received

\* service.py 280 and 291: return [], failures
PagesAfterFailure(received) == <<>>

\* service.py 279 and 289: except ConfluenceError
CatchesConfluenceError(kind) == kind = "ConfluenceError"

\* service.py 279 and 290: failures.append((root_page_id, str(exc)))
FailureEntry(message) == [id |-> RootPageId, message |-> message]

GInit ==
    /\ gpc = "idle"
    /\ is_parent = FALSE
    /\ gMessage = None
    /\ gPages = <<>>
    /\ gFailures = <<>>
    /\ gOutcome = "none"

\* service.fetch_targets(root_page_id=..., is_parent=..., max_children=...):
\* service.py 274-275, and 283-287 with client.py 56-57 when is_parent
FetchTargets ==
    /\ gpc = "idle"
    /\ \E parent \in BOOLEAN, max_children \in {NoLimit} \cup 0..MaxLimit :
        /\ is_parent' = parent
        /\ IF parent
           THEN /\ gpc' = "children"
                /\ cpc' = "loop"
                /\ limit' = max_children
                /\ page_size' = DEFAULT_PAGE_SIZE
           ELSE /\ gpc' = "page"
                /\ UNCHANGED <<cpc, limit, page_size>>
    /\ UNCHANGED <<gMessage, gPages, gFailures, gOutcome>>
    /\ UNCHANGED <<childCount, collected, start, cpOutcome, responses>>
    /\ UNCHANGED exceptG

\* service.py 277-278: get_page answers, return [page], failures
PageAnswered ==
    /\ gpc = "page"
    /\ gPages' = <<RootPage>>
    /\ gFailures' = <<>>
    /\ gOutcome' = "returned"
    /\ gpc' = "done"
    /\ UNCHANGED <<is_parent, gMessage>>
    /\ UNCHANGED cvars
    /\ UNCHANGED exceptG

\* service.py 279-281: get_page raises ConfluenceError
PageFails ==
    /\ gpc = "page"
    /\ \E message \in ConfluenceMessages :
        /\ gMessage' = message
        /\ IF CatchesConfluenceError("ConfluenceError")
           THEN /\ gPages' = PagesAfterFailure(<<>>)
                /\ gFailures' = <<FailureEntry(message)>>
                /\ gOutcome' = "returned"
           ELSE /\ gOutcome' = "raised"
                /\ UNCHANGED <<gPages, gFailures>>
    /\ gpc' = "done"
    /\ UNCHANGED is_parent
    /\ UNCHANGED cvars
    /\ UNCHANGED exceptG

\* client.py 69-73 with 91-95: a child-page request raises ConfluenceError,
\* which leaves get_child_pages
ChildRequestFails ==
    /\ gpc = "children"
    /\ cpc = "loop"
    /\ ~LimitHit(limit, Len(collected))
    /\ \E message \in ConfluenceMessages : gMessage' = message
    /\ cpc' = "done"
    /\ cpOutcome' = "error"
    /\ UNCHANGED <<gpc, is_parent, gPages, gFailures, gOutcome>>
    /\ UNCHANGED <<childCount, limit, page_size, collected, start, responses>>
    /\ UNCHANGED exceptG

\* service.py 288-291: get_child_pages has returned or raised
ReturnChildren ==
    /\ gpc = "children"
    /\ cpc = "done"
    /\ IF cpOutcome = "returned"
       THEN /\ gPages' = collected
            /\ gFailures' = <<>>
            /\ gOutcome' = "returned"
       ELSE IF CatchesConfluenceError("ConfluenceError")
       THEN /\ gPages' = PagesAfterFailure(collected)
            /\ gFailures' = <<FailureEntry(gMessage)>>
            /\ gOutcome' = "returned"
       ELSE /\ gOutcome' = "raised"
            /\ UNCHANGED <<gPages, gFailures>>
    /\ gpc' = "done"
    /\ UNCHANGED <<is_parent, gMessage>>
    /\ UNCHANGED cvars
    /\ UNCHANGED exceptG

\* the loop of get_child_pages runs between the call and the return
GNext ==
    \/ FetchTargets
    \/ PageAnswered
    \/ PageFails
    \/ LimitReached
    \/ FetchBatch
    \/ ChildRequestFails
    \/ ReturnChildren

GIdle == GInit

-----------------------------------------------------------------------------
(* Specifications: one per component; the other components stay as constructed *)

Init == TInit /\ CIdle /\ FIdle /\ LIdle /\ SIdle /\ QIdle /\ KIdle /\ PIdle /\ IIdle /\ EIdle /\ BIdle /\ GIdle

Next == TNext

Spec == Init /\ [][Next]_vars

InitChildPages == CInit /\ TIdle /\ FIdle /\ LIdle /\ SIdle /\ QIdle /\ KIdle /\ PIdle /\ IIdle /\ EIdle /\ BIdle /\ GIdle

SpecChildPages == InitChildPages /\ [][CNext]_vars

InitFields == FInit /\ TIdle /\ CIdle /\ LIdle /\ SIdle /\ QIdle /\ KIdle /\ PIdle /\ IIdle /\ EIdle /\ BIdle /\ GIdle

SpecFields == InitFields /\ [][FNext]_vars

SpecUpdate == InitFields /\ [][UNext]_vars

InitLabels == LInit /\ TIdle /\ CIdle /\ FIdle /\ SIdle /\ QIdle /\ KIdle /\ PIdle /\ IIdle /\ EIdle /\ BIdle /\ GIdle

SpecLabels == InitLabels /\ [][LNext]_vars

InitServiceDesk == SInit /\ TIdle /\ CIdle /\ FIdle /\ LIdle /\ QIdle /\ KIdle /\ PIdle /\ IIdle /\ EIdle /\ BIdle /\ GIdle

SpecServiceDesk == InitServiceDesk /\ [][SNext]_vars

InitQueue == QInit /\ TIdle /\ CIdle /\ FIdle /\ LIdle /\ SIdle /\ KIdle /\ PIdle /\ IIdle /\ EIdle /\ BIdle /\ GIdle

SpecQueue == InitQueue /\ [][QNext]_vars

InitConnect == KInit /\ TIdle /\ CIdle /\ FIdle /\ LIdle /\ SIdle /\ QIdle /\ PIdle /\ IIdle /\ EIdle /\ BIdle /\ GIdle

SpecConnect == InitConnect /\ [][KNext]_vars

InitStorage == PInit /\ TIdle /\ CIdle /\ FIdle /\ LIdle /\ SIdle /\ QIdle /\ KIdle /\ IIdle /\ EIdle /\ BIdle /\ GIdle

SpecStorage == InitStorage /\ [][PNext]_vars

InitIssueKeys == IInit /\ TIdle /\ CIdle /\ FIdle /\ LIdle /\ SIdle /\ QIdle /\ KIdle /\ PIdle /\ EIdle /\ BIdle /\ GIdle

SpecIssueKeys == InitIssueKeys /\ [][INext]_vars

InitRequest == EInit /\ TIdle /\ CIdle /\ FIdle /\ LIdle /\ SIdle /\ QIdle /\ KIdle /\ PIdle /\ IIdle /\ BIdle /\ GIdle

SpecRequest == InitRequest /\ [][ENext]_vars

InitBatch == BInit /\ TIdle /\ CIdle /\ FIdle /\ LIdle /\ SIdle /\ QIdle /\ KIdle /\ PIdle /\ IIdle /\ EIdle /\ GIdle

SpecBatch == InitBatch /\ [][BNext]_vars

InitTargets == GInit /\ TIdle /\ CInit /\ FIdle /\ LIdle /\ SIdle /\ QIdle /\ KIdle /\ PIdle /\ IIdle /\ EIdle /\ BIdle

SpecTargets == InitTargets /\ [][GNext]_vars

-----------------------------------------------------------------------------
(* Properties of JiraService.transition_issue *)

Listed == Len(requests) >= 2 /\ requests[2] = ListReq

PostIssued == \E k \in DOMAIN requests : requests[k].method = "POST"

\* the current status as transition_issue sees it after the first fetch
FirstFetched == OrElse(requests[1].status, <<>>)

\* the case of C1: a required status is given and differs, or the issue is at the target
SkipCase ==
    /\ Len(requests) >= 1
    /\ \/ Truthy(required_status) /\ lower(FirstFetched) # lower(required_status)
       \/ lower(FirstFetched) = lower(target_status)

\* C1: when a required status is given and differs case-insensitively from
\* the current status, or the current status equals the target
\* case-insensitively, the only request ever issued is the first fetch and
\* the call returns (before, before, False).
C1_SkipIssuesNoTransition ==
    SkipCase =>
        /\ requests = <<GetIssueReq(ticketStatus)>>
        /\ pc = "done"
        /\ outcome = "returned"
        /\ before = FirstFetched
        /\ after = before
        /\ changed = FALSE

C1_Witness ==
    /\ pc = "done"
    /\ outcome = "returned"
    /\ required_status = sOpen
    /\ ticketStatus = sInProgress
    /\ before = sInProgress
    /\ after = sInProgress
    /\ changed = FALSE
    /\ Len(requests) = 1

\* a listed transition matches in the sense of the specification: its own
\* name or its destination-status name equals the target case-insensitively
NameOrDestinationMatches(entry, tgt) ==
    \/ Truthy(entry.name) /\ lower(entry.name) = lower(tgt)
    \/ Truthy(entry.to) /\ lower(entry.to) = lower(tgt)

\* C2: once the transitions are listed, the transition chosen is the first
\* listed one whose name or whose destination-status name equals the target
\* case-insensitively.
C2_FirstNameOrDestinationMatch ==
    Listed =>
        \A i \in DOMAIN transitions :
            ( /\ NameOrDestinationMatches(transitions[i], target_status)
              /\ \A j \in 1..(i-1) :
                    ~NameOrDestinationMatches(transitions[j], target_status) )
            => target_id = transitions[i].id

\* C3: when no listed transition matches the target the call fails, no POST
\* is issued and the ticket keeps its status; every POST carries the id of a
\* listed transition.
C3_NoMatchNoPost ==
    /\ ( Listed /\ \A i \in DOMAIN transitions :
                      ~EntryMatches(transitions[i], target_status) )
       => /\ pc = "done"
          /\ outcome = "error"
          /\ ~PostIssued
          /\ ticketStatus = requests[1].status
    /\ \A k \in DOMAIN requests :
          requests[k].method = "POST" =>
              /\ requests[k].id # ""
              /\ \E i \in DOMAIN transitions : transitions[i].id = requests[k].id

C3_Witness ==
    /\ Listed
    /\ transitions # <<>>
    /\ \A i \in DOMAIN transitions : ~EntryMatches(transitions[i], target_status)
    /\ outcome = "error"
    /\ ~PostIssued

\* the four requests of the change path, in order, with exactly one POST
ChangePathRequests ==
    /\ Len(requests) = 4
    /\ requests[1].method = "GET" /\ requests[1].path = "issue"
    /\ requests[2] = ListReq
    /\ requests[3] = PostReq(target_id)
    /\ requests[4].method = "GET" /\ requests[4].path = "issue"

\* C4 as stated: on the change path the requests are fetch, list, one POST,
\* re-fetch, `after` is the status name the re-fetch reported and `before`
\* the status of the first fetch.
C4_AfterIsRefetchedStatus ==
    (outcome = "returned" /\ changed) =>
        /\ ChangePathRequests
        /\ after = requests[4].status
        /\ before = requests[1].status

\* C4 (amended): on the change path the requests are fetch, list, one POST,
\* re-fetch; `after` is the status name the re-fetch reported, or the target
\* status when the re-fetch reports none; `before` is the status of the first
\* fetch, or the empty string when it reports none.
C4_ChangePathOrder ==
    (outcome = "returned" /\ changed) =>
        /\ ChangePathRequests
        /\ after = (IF Truthy(requests[4].status) THEN requests[4].status
                    ELSE target_status)
        /\ before = (IF Truthy(requests[1].status) THEN requests[1].status
                     ELSE <<>>)

C4_Witness ==
    /\ outcome = "returned"
    /\ changed
    /\ ChangePathRequests
    /\ requests[1].status = sInProgress
    /\ requests[4].status = sOpen
    /\ before = sInProgress
    /\ after = sOpen

-----------------------------------------------------------------------------
(* Properties of ConfluenceClient.get_child_pages *)

RECURSIVE Received(_)
\* number of entries received in the first k responses
Received(k) == IF k = 0 THEN 0 ELSE Received(k - 1) + Len(responses[k].entries)

RECURSIVE Concatenated(_)
\* the entries of the first k responses, in request order
Concatenated(k) == IF k = 0 THEN <<>> ELSE Concatenated(k - 1) \o responses[k].entries

\* the upstream of C5: every response carries a next link and between one
\* and the requested number of entries
KeepsPaging ==
    \A k \in DOMAIN responses :
        /\ responses[k].next
        /\ Len(responses[k].entries) >= 1
        /\ Len(responses[k].entries) <= responses[k].limit

C6_CursorAndStop ==
    /\ \A k \in DOMAIN responses :
          /\ responses[k].start = Received(k - 1)
          /\ k < Len(responses) =>
                responses[k].next /\ responses[k].entries # <<>>
    /\ ( /\ responses # <<>>
         /\ \/ ~responses[Len(responses)].next
            \/ responses[Len(responses)].entries = <<>> )
       => cpc = "done" /\ cpOutcome = "returned"
    /\ cpOutcome = "returned" => collected = Concatenated(Len(responses))

C6_Witness ==
    /\ cpOutcome = "returned"
    /\ limit = NoLimit
    /\ page_size = 2
    /\ Len(responses) = 3
    /\ Len(responses[1].entries) = 1
    /\ responses[2].start = 1
    /\ responses[3].start = 3
    /\ ~responses[3].next
    /\ collected = <<1, 2, 3, 4>>

-----------------------------------------------------------------------------
(* Properties of field resolution and update_fields *)

\* the field list has an entry with a name and an id whose display name
\* equals the given name case-insensitively
Listed_(name) ==
    \E i \in DOMAIN fieldList :
        /\ Truthy(fieldList[i].name) /\ Truthy(fieldList[i].id)
        /\ lower(fieldList[i].name) = lower(name)

\* the id the field list gives that display name (the last such entry)
ListedId(name) ==
    IF Listed_(name)
    THEN fieldList[CHOOSE i \in DOMAIN fieldList :
            /\ Truthy(fieldList[i].name) /\ Truthy(fieldList[i].id)
            /\ lower(fieldList[i].name) = lower(name)
            /\ \A j \in (i+1)..Len(fieldList) :
                  ~( /\ Truthy(fieldList[j].name) /\ Truthy(fieldList[j].id)
                     /\ lower(fieldList[j].name) = lower(name) )].id
    ELSE None

LiteralNames == {fcf100, fstatus, fsummary}

\* the id a name resolves to for a client whose cache was `cache`: literal
\* ids and built-in names stand for themselves unless the cache holds their
\* lower-cased form; display names are matched against the field list
ResolutionOf(name, cache) ==
    IF name \in LiteralNames /\ lower(name) \notin DOMAIN cache
    THEN name
    ELSE ListedId(name)

\* C7: issue.get(name) returns fields[name] when name is a key of the
\* issue's mapping; otherwise fields[id] for the id the name resolves to
\* (display names matched case-insensitively against the field list) when
\* that id is a key; otherwise it fails with field-not-found.
C7_GetByNameOrResolvedId ==
    (last.op = "get" /\ last.outcome # "integration_error") =>
        IF last.name \in DOMAIN last.fields
        THEN last.outcome = "value" /\ last.result = last.fields[last.name]
        ELSE LET id == ResolutionOf(last.name, last.cacheBefore) IN
             IF id # None /\ id \in DOMAIN last.fields
             THEN last.outcome = "value" /\ last.result = last.fields[id]
             ELSE last.outcome = "field_not_found"

C7_Witness ==
    /\ last.op = "get"
    /\ last.name = fTeam
    /\ fTeam \notin DOMAIN last.fields
    /\ fcf100 \in DOMAIN last.fields
    /\ \E i \in DOMAIN fieldList : fieldList[i] = [name |-> fTeam, id |-> fcf100]
    /\ last.outcome = "value"
    /\ last.result = last.fields[fcf100]

\* C8: over any sequence of calls on one client the field list is requested
\* at most once (stated for the runs in which every request was answered).
C8_FieldListRequestedOnce ==
    fieldAnswers = fieldRequests => fieldRequests <= 1

\* C9: for a literal field id or a built-in name, resolve_field_id returns
\* the name itself and requests no field list, whatever the cache holds.
C9_LiteralBypassesResolution ==
    (last.op = "resolve" /\ last.name \in LiteralNames) =>
        /\ last.outcome = "id"
        /\ last.result = last.name
        /\ ~last.requested

\* the non-empty names of the argument
GivenNames == { fields_by_name[i].name : i \in DOMAIN fields_by_name } \ {<<>>}

\* the keys a given name may be sent under: its resolved id, or the literal
\* name when it does not resolve
KeysOf(name) ==
    IF ListedId(name) = None THEN {name}
    ELSE IF name \in LiteralNames THEN {name, ListedId(name)}
    ELSE {ListedId(name)}

\* the PUT carries every given name under its key, and nothing else
CarriesAllResolved(payload) ==
    /\ \A i \in DOMAIN fields_by_name :
          fields_by_name[i].name # <<>> =>
              \E k \in DOMAIN payload : k \in KeysOf(fields_by_name[i].name)
    /\ \A k \in DOMAIN payload :
          \E i \in DOMAIN fields_by_name :
              /\ fields_by_name[i].name # <<>>
              /\ k \in KeysOf(fields_by_name[i].name)
              /\ payload[k] = fields_by_name[i].value

-----------------------------------------------------------------------------
(* Properties of JiraService.update_labels *)

NonEmptyLabels(list) ==
    SelectSeq(IF list = <<None>> THEN <<>> ELSE list, LAMBDA label : label # <<>>)

\* add operations for the non-empty labels to add, then remove operations for
\* the non-empty labels to remove, each in input order
ExpectedLabelOps ==
    [i \in 1..Len(NonEmptyLabels(lAdd)) |-> [op |-> "add", label |-> NonEmptyLabels(lAdd)[i]]]
    \o [i \in 1..Len(NonEmptyLabels(lRemove)) |->
           [op |-> "remove", label |-> NonEmptyLabels(lRemove)[i]]]

OneLabelsRequest ==
    /\ Len(lRequests) = 1
    /\ lRequests[1].method = "PUT"
    /\ lRequests[1].update = [labels |-> ExpectedLabelOps]

BothListsEmpty == lAdd \in {<<None>>, <<>>} /\ lRemove \in {<<None>>, <<>>}

\* C11 (as stated): update_labels issues exactly one update request carrying the
\* add operations then the remove operations of the non-empty labels, and no
\* request exactly in the case where both lists are empty.
C11_OneRequestUnlessBothEmpty ==
    lOutcome # "none" =>
        IF BothListsEmpty THEN lRequests = <<>> ELSE OneLabelsRequest

\* C11 (amended): no request is issued when neither list holds a non-empty
\* label; otherwise exactly one update request is issued, carrying one add
\* operation per non-empty label to add followed by one remove operation per
\* non-empty label to remove, each in input order.
C11_OneRequestUnlessNoLabel ==
    lOutcome # "none" =>
        IF ExpectedLabelOps = <<>>
        THEN lRequests = <<>> /\ lOutcome = "returned"
        ELSE OneLabelsRequest

\* an empty label is dropped between two kept ones, and adds precede removes
C11_Witness ==
    /\ lOutcome = "returned"
    /\ lAdd = <<lblBug, <<>>>>
    /\ lRemove = <<lblOld, lblBug>>
    /\ Len(lRequests) = 1
    /\ lRequests[1].update.labels =
           <<[op |-> "add", label |-> lblBug], [op |-> "remove", label |-> lblOld],
             [op |-> "remove", label |-> lblBug]>>

\* the only label given is the empty string: nothing is sent
C11_NoRequestForEmptyLabel ==
    /\ lOutcome = "returned"
    /\ lAdd = <<<<>>>>
    /\ lRemove = <<None>>
    /\ lRequests = <<>>

-----------------------------------------------------------------------------
(* Properties of JiraService._find_service_desk_id *)

RECURSIVE SdSeen(_)
\* number of entries received in the first k answers
SdSeen(k) == IF k = 0 THEN 0 ELSE SdSeen(k - 1) + Len(sdResponses[k].values)

\* every request asks for 50 entries from the number of entries seen so far
SdPaging ==
    \A k \in DOMAIN sdResponses :
        /\ sdResponses[k].request.limit = 50
        /\ sdResponses[k].request.start = SdSeen(k - 1)

SameKey(k) == { i \in DOMAIN sdResponses[k].values :
                    sdResponses[k].values[i].projectKey = project_key }

SameKeyWithId(k) == { i \in SameKey(k) : sdResponses[k].values[i].id # None }

First(S) == CHOOSE i \in S : \A j \in S : i <= j

SdLastAnswer == sdResponses[Len(sdResponses)]

SdEnds(k) == sdResponses[k].isLastPage \/ sdResponses[k].values = <<>>

\* C14 (as stated): the lookup pages with limit 50 and start = entries seen,
\* returns the id of the first entry whose project key equals the requested
\* one, on the page where it appears, and fails with not-found on a last or
\* empty page when no entry matched.
C14_FirstSameKeyEntry ==
    /\ SdPaging
    /\ sdOutcome = "returned" =>
          /\ \A k \in 1..(Len(sdResponses) - 1) : SameKey(k) = {}
          /\ SameKey(Len(sdResponses)) # {}
          /\ sdResult = SdLastAnswer.values[First(SameKey(Len(sdResponses)))].id
    /\ sdOutcome = "not_found" =>
          /\ \A k \in DOMAIN sdResponses : SameKey(k) = {}
          /\ SdEnds(Len(sdResponses))
    /\ (sdpc = "loop" /\ sdResponses # <<>>) =>
          \A k \in DOMAIN sdResponses : SameKey(k) = {} /\ ~SdEnds(k)

\* C14 (amended): the lookup pages with limit 50 and start = entries seen; it
\* returns the id of the first entry, in listing order, whose project key
\* equals the requested one and that carries an id, without requesting further
\* pages; it fails with not-found once a page is flagged last or is empty and
\* no such entry was seen; otherwise it requests the next page.
C14_FirstSameKeyEntryWithId ==
    /\ SdPaging
    /\ sdOutcome = "returned" =>
          /\ \A k \in 1..(Len(sdResponses) - 1) : SameKeyWithId(k) = {}
          /\ SameKeyWithId(Len(sdResponses)) # {}
          /\ sdResult = SdLastAnswer.values[First(SameKeyWithId(Len(sdResponses)))].id
    /\ sdOutcome = "not_found" =>
          /\ \A k \in DOMAIN sdResponses : SameKeyWithId(k) = {}
          /\ SdEnds(Len(sdResponses))
    /\ (sdpc = "loop" /\ sdResponses # <<>>) =>
          \A k \in DOMAIN sdResponses : SameKeyWithId(k) = {} /\ ~SdEnds(k)

\* the second page is asked from the number of entries of the first, and the
\* first of two desks of the project is returned
C14_Witness ==
    /\ sdOutcome = "returned"
    /\ Len(sdResponses) = 2
    /\ Len(sdResponses[1].values) = 2
    /\ sdResponses[2].request.start = 2
    /\ Cardinality(SameKeyWithId(2)) = 2
    /\ sdResult = sdResponses[2].values[1].id

-----------------------------------------------------------------------------
(* Properties of JiraService._fetch_queue_issues *)

RequestsTo(path) == { k \in DOMAIN qRequests : qRequests[k].request.path = path }

HasQuery == queue_info.jql # None /\ queue_info.jql # <<>>

TheSearch == qRequests[CHOOSE k \in RequestsTo("search") : TRUE]

\* the issues come from one search with the queue's query
FromOneSearch ==
    /\ Cardinality(RequestsTo("search")) = 1
    /\ TheSearch.request.arg = queue_info.jql
    /\ TheSearch.request.limit = qLimit
    /\ issues = TheSearch.values

\* C12 (as stated): when the queue carries a query the issues come from one
\* search with that query and the queue's issue-key listing is never requested,
\* whatever the search returns; the listing is paged only for a queue without
\* a query.
C12_QueryMeansNoKeyListing ==
    /\ HasQuery => RequestsTo("queue_issue") = {}
    /\ (HasQuery /\ qOutcome = "returned") => FromOneSearch
    /\ (~HasQuery /\ qOutcome = "returned") => RequestsTo("search") = {}

\* C12 (amended): when the queue carries a query, exactly one search with that
\* query and the result cap is made, before anything else is listed or
\* fetched; when it returns at least one issue, those issues are the result
\* and the issue-key listing is never requested.  The listing is paged when the
\* queue carries no query, and also when the search returns no issue.
C12_SearchFirstListingAsFallback ==
    /\ RequestsTo("search") # {} =>
          /\ HasQuery
          /\ Cardinality(RequestsTo("search")) = 1
          /\ TheSearch.request.arg = queue_info.jql
          /\ TheSearch.request.limit = qLimit
          /\ \A k \in RequestsTo("queue_issue") \cup RequestsTo("issue") :
                 \A s \in RequestsTo("search") : s < k
    /\ (HasQuery /\ (qOutcome = "returned" \/ RequestsTo("queue_issue") # {})) =>
          RequestsTo("search") # {}
    /\ (RequestsTo("search") # {} /\ TheSearch.answered /\ TheSearch.values # <<>>) =>
          /\ RequestsTo("queue_issue") = {}
          /\ RequestsTo("issue") = {}
          /\ qOutcome \in {"none", "returned"}
          /\ issues = TheSearch.values
    /\ (qOutcome = "returned" /\ RequestsTo("queue_issue") = {}) =>
          (HasQuery /\ TheSearch.values # <<>>)
    /\ RequestsTo("queue_issue") # {} =>
          (~HasQuery \/ (TheSearch.answered /\ TheSearch.values = <<>>))

\* a queue with a query whose search found two issues: they are returned and
\* nothing was listed
C12_Witness ==
    /\ qOutcome = "returned"
    /\ HasQuery
    /\ Len(issues) = 2
    /\ issues = TheSearch.values
    /\ RequestsTo("queue_issue") = {}
    /\ queueEntries # <<>>

\* the search found nothing and the listing was paged although the queue has a query
C12_FallbackAfterEmptySearch ==
    /\ qOutcome = "returned"
    /\ HasQuery
    /\ TheSearch.values = <<>>
    /\ RequestsTo("queue_issue") # {}
    /\ issues # <<>>

RECURSIVE Listing(_)
\* the issue keys of the first k answers, in listing order, as the code sees them
Listing(k) ==
    IF k = 0 THEN <<>>
    ELSE LET r == qRequests[k]
             keys == IF r.request.path = "queue_issue" /\ r.answered
                     THEN LET kept == SelectSeq(r.values, LAMBDA e : e.issueKey # None)
                          IN  [i \in 1..Len(kept) |-> kept[i].issueKey]
                     ELSE <<>>
         IN  Listing(k - 1) \o keys

RECURSIVE FetchLog(_)
\* the get_issue requests among the first k requests, in order
FetchLog(k) ==
    IF k = 0 THEN <<>>
    ELSE IF qRequests[k].request.path = "issue"
         THEN Append(FetchLog(k - 1), qRequests[k])
         ELSE FetchLog(k - 1)

Fetched == FetchLog(Len(qRequests))

Succeeded == SelectSeq(Fetched, LAMBDA r : r.answered)

\* C13: on the key-listing path a key whose fetch fails with an integration
\* error is skipped: the call still returns, every listed key is fetched once in
\* listing order (also after a failure), and the result is the successfully
\* fetched issues in listing order.
C13_FailedFetchSkipped ==
    /\ \A i \in DOMAIN Fetched : /\ i <= Len(Listing(Len(qRequests)))
                                 /\ Fetched[i].request.arg = Listing(Len(qRequests))[i]
    /\ Fetched # <<>> =>
          /\ issues = [i \in 1..Len(Succeeded) |-> Succeeded[i].request.arg]
          /\ qOutcome \in {"none", "returned"}
    /\ (qOutcome = "returned" /\ RequestsTo("queue_issue") # {}) =>
          Len(Fetched) = Len(Listing(Len(qRequests)))

\* two keys listed, the first fetch failed, the second was still made and is the result
C13_Witness ==
    /\ qOutcome = "returned"
    /\ Len(Fetched) = 2
    /\ ~Fetched[1].answered
    /\ Fetched[2].answered
    /\ Fetched[1].request.arg # Fetched[2].request.arg
    /\ issues = <<Fetched[2].request.arg>>

\* C17: every HTTP request carries the client's configured timeout, the
\* service-desk requests included.
C17_EveryRequestCarriesTimeout ==
    \A k \in DOMAIN qRequests : qRequests[k].request.timeout = clientTimeout

\* the requests made through JiraClient._request do carry it
C17_RestRequestsCarryTimeout ==
    \A k \in DOMAIN qRequests :
        qRequests[k].request.api = "rest" => qRequests[k].request.timeout = clientTimeout

-----------------------------------------------------------------------------
(* Properties of connect_jira / connect_confluence *)

\* C15: once connect() has succeeded, close() is attempted exactly once on
\* every exit path of the body, whether the body returns or raises, and an
\* exception of the body reaches the caller after the close attempt.
C15_CloseOnceBodyErrorPropagates ==
    /\ closeAttempts <= 1
    /\ kpc \in {"body", "finally"} => closeAttempts = 0
    /\ (kpc = "done" /\ bodyOutcome # "none") =>
          /\ closeAttempts = 1
          /\ closeOutcome # "none"
          /\ bodyOutcome = "returned" => kRaised = "none"
          /\ bodyOutcome # "returned" => kRaised = bodyOutcome

\* the body raised an error that is not the client's, close() itself failed,
\* and the caller still gets the error of the body
C15_Witness ==
    /\ kpc = "done"
    /\ kKind = "confluence"
    /\ bodyOutcome = "other_error"
    /\ closeOutcome = "client_error"
    /\ closeAttempts = 1
    /\ kRaised = "other_error"

\* C16: no constructed client is left unclosed: when connect() fails after the
\* client and its session were created, the session is closed before the error
\* reaches the caller.
C16_ConstructedClientIsClosed ==
    (kpc = "done" /\ session # "none") => closeAttempts = 1

-----------------------------------------------------------------------------
-----------------------------------------------------------------------------
(* confluence/service.py: extract_heading_section *)

\* the tree of the stored markup (NoTree when there is none)
StorageTree == ParseStorage(storage).root

\* the headings h1..h6 of the tree whose normalized text is the normalized title
MatchingHeadings(nodes, wanted) ==
    { n \in 2..Len(nodes) :
        /\ IsHeading(nodes, n)
        /\ lower(NormalizeText(IterText(nodes, n))) = lower(NormalizeText(wanted)) }

\* the siblings that follow element n under its parent
FollowingSiblings(nodes, n) ==
    SelectSeq(Children(nodes, nodes[n].parent), LAMBDA s : s > n)

RECURSIVE UpToNextHeading(_, _, _)
\* the leading siblings before the first one that is a heading h1..h6
UpToNextHeading(nodes, siblings, k) ==
    IF k > Len(siblings) \/ IsHeading(nodes, siblings[k]) THEN <<>>
    ELSE <<siblings[k]>> \o UpToNextHeading(nodes, siblings, k + 1)

HeadingSectionReturned == pOp = "heading" /\ pOutcome = "returned" /\ section # NoSection

\* C19: a returned section is a matching heading followed by every following
\* sibling up to, and excluding, the first following sibling that is a heading
\* h1..h6; no other element ends the section.
C19_SectionEndsOnlyAtHeading ==
    HeadingSectionReturned =>
        \E h \in MatchingHeadings(StorageTree, title) :
            section = SerializeAll(StorageTree,
                                   <<h>> \o UpToNextHeading(StorageTree,
                                                            FollowingSiblings(StorageTree, h), 1),
                                   1)

\* the first heading in document order among those matching the title
FirstInDocumentOrder(hs) == CHOOSE h \in hs : \A g \in hs : h <= g

\* C20: when headings match the title, the section returned is the section of
\* the matching heading that comes first in document order (pre-order of the
\* tree), under whichever parent it is.
C20_FirstMatchInDocumentOrder ==
    (pOp = "heading" /\ MatchingHeadings(StorageTree, title) # {}) =>
        LET h == FirstInDocumentOrder(MatchingHeadings(StorageTree, title))
        IN  /\ pOutcome = "returned"
            /\ section = SerializeAll(StorageTree,
                                      <<h>> \o CollectSiblings(StorageTree,
                                                               FollowingSiblings(StorageTree, h), 1),
                                      1)

-----------------------------------------------------------------------------
-----------------------------------------------------------------------------
(* confluence/service.py: extraction from markup that gives no tree *)

\* the markup is absent, empty, or rejected by the XML parser
NoUsableMarkup(raw) ==
    \/ raw = AbsentMarkup
    \/ raw = <<>>
    \/ fromstring(WrapStorage(raw)).error = "ParseError"

-----------------------------------------------------------------------------
-----------------------------------------------------------------------------
(* confluence/service.py: tables *)

ObjectsReturned == pOp = "objects" /\ pOutcome = "returned"

\* the table elements of the tree, in document order
TableNodes(nodes) ==
    SelectSeq([i \in 1..Len(nodes) |-> i], LAMBDA n : lower(StripTag(nodes[n].tag)) = tTable)

CellText(nodes, c) == NormalizeText(IterText(nodes, c))

\* a row with at least two cells, none of them a header cell
IsDataRow(nodes, row) ==
    LET cellNodes == RowCells(nodes, row)
    IN  /\ Len(cellNodes) >= 2
        /\ \A c \in DOMAIN cellNodes : lower(StripTag(nodes[cellNodes[c]].tag)) = tTd

\* the <<key, value>> pairs the data rows of table n give: first and second cell
RowPairs(nodes, n) ==
    LET rows == FindAll(nodes, n, tTr)
    IN  { <<CellText(nodes, RowCells(nodes, rows[k])[1]),
            CellText(nodes, RowCells(nodes, rows[k])[2])>> :
              k \in { j \in DOMAIN rows : /\ IsDataRow(nodes, rows[j])
                                          /\ CellText(nodes, RowCells(nodes, rows[j])[1]) # <<>> } }

\* the <<key, value>> pairs of an extracted table
EntryPairs(table) ==
    UNION { { <<table.key_value[i].key, table.key_value[i].value.items[j]>> :
                j \in DOMAIN table.key_value[i].value.items } :
            i \in DOMAIN table.key_value }

\* the tables that give at least one pair
KeptTables(nodes) == SelectSeq(TableNodes(nodes), LAMBDA n : RowPairs(nodes, n) # {})

\* C21: the extracted tables are, in document order, the tables with at least
\* one data row with key text; the entries of each are exactly the first-cell /
\* second-cell pairs of its data rows (at least two cells, no header cell), so
\* a row with a header cell gives no entry and a table without entry is dropped.
C21_OnlyDataRowsContribute ==
    (ObjectsReturned /\ StorageTree # NoTree) =>
        LET kept == KeptTables(StorageTree)
        IN  /\ Len(objects.tables) = Len(kept)
            /\ \A i \in DOMAIN kept :
                   /\ objects.tables[i].key_value # <<>>
                   /\ EntryPairs(objects.tables[i]) = RowPairs(StorageTree, kept[i])

HasHeaderCell(raw) ==
    raw # AbsentMarkup /\ \E i \in DOMAIN raw : raw[i].kind = "open" /\ raw[i].tag = tTh

\* a table with a header-cell row and a data row was extracted
C21_Witness ==
    /\ ObjectsReturned
    /\ HasHeaderCell(storage)
    /\ objects.tables # <<>>

-----------------------------------------------------------------------------
RECURSIVE DistinctValues(_, _, _, _, _)
\* the distinct second-cell texts of the data rows with the given key, in
\* first-encounter order
DistinctValues(nodes, rows, key, k, values) ==
    IF k > Len(rows) THEN values
    ELSE LET cellNodes == RowCells(nodes, rows[k])
         IN  IF /\ IsDataRow(nodes, rows[k])
                /\ CellText(nodes, cellNodes[1]) = key
                /\ \A j \in DOMAIN values : values[j] # CellText(nodes, cellNodes[2])
             THEN DistinctValues(nodes, rows, key, k + 1,
                                 Append(values, CellText(nodes, cellNodes[2])))
             ELSE DistinctValues(nodes, rows, key, k + 1, values)

\* C22: the value extracted for a key of a table is the list of the distinct
\* values of that key's data rows in first-encounter order, each exactly once,
\* whatever the number and order of repetitions.
C22_DistinctValuesInEncounterOrder ==
    (ObjectsReturned /\ StorageTree # NoTree) =>
        LET kept == KeptTables(StorageTree)
        IN  \A i \in DOMAIN objects.tables :
                \A e \in DOMAIN objects.tables[i].key_value :
                    objects.tables[i].key_value[e].value.items =
                        DistinctValues(StorageTree, FindAll(StorageTree, kept[i], tTr),
                                       objects.tables[i].key_value[e].key, 1, <<>>)

-----------------------------------------------------------------------------
-----------------------------------------------------------------------------
(* confluence/service.py: ticket keys of a parameter mapping *)

\* w is a ticket key: a letter, one or more letters or digits, "-", digits
IsKeyShape(w) ==
    \E d \in 3..(Len(w) - 1) :
        /\ w[d] = "-"
        /\ IsLetter(w[1])
        /\ \A i \in 2..(d - 1) : w[i] \in AlnumChars
        /\ \A i \in (d + 1)..Len(w) : w[i] \in DigitChars

\* the spans of a token that are ticket keys
KeySpans(token) ==
    { sp \in (1..Len(token)) \X (1..Len(token)) :
          sp[1] <= sp[2] /\ IsKeyShape(SubSeq(token, sp[1], sp[2])) }

\* the leftmost, then longest, ticket key in a token, upper-cased (None: none)
KeyIn(token) ==
    IF KeySpans(token) = {} THEN None
    ELSE LET sp == CHOOSE a \in KeySpans(token) :
                       \A b \in KeySpans(token) :
                           a[1] < b[1] \/ (a[1] = b[1] /\ a[2] >= b[2])
         IN  upper(SubSeq(token, sp[1], sp[2]))

\* the spans of a value between separators (commas, semicolons, newlines)
TokenSpans(value) ==
    { sp \in (1..Len(value)) \X (1..Len(value)) :
          /\ sp[1] <= sp[2]
          /\ \A i \in sp[1]..sp[2] : value[i] \notin TokenSeparators
          /\ sp[1] = 1 \/ value[sp[1] - 1] \in TokenSeparators
          /\ sp[2] = Len(value) \/ value[sp[2] + 1] \in TokenSeparators }

\* the value of a parameter (<<>> when the mapping has none of that name)
ParameterValue(mapping, name) ==
    IF \E e \in DOMAIN mapping : mapping[e].key = name
    THEN mapping[CHOOSE e \in DOMAIN mapping : mapping[e].key = name].value
    ELSE <<>>

\* where ticket keys occur: <<parameter in reading order, position, key>>
KeyOccurrences(mapping) ==
    UNION { { <<c, sp[1], KeyIn(SubSeq(ParameterValue(mapping, CandidateNames[c]), sp[1], sp[2]))>> :
                sp \in { s \in TokenSpans(ParameterValue(mapping, CandidateNames[c])) :
                           KeyIn(SubSeq(ParameterValue(mapping, CandidateNames[c]),
                                        s[1], s[2])) # None } } :
            c \in DOMAIN CandidateNames }

Earlier(o1, o2) == o1[1] < o2[1] \/ (o1[1] = o2[1] /\ o1[2] < o2[2])

\* the first occurrence of a key
FirstOccurrence(mapping, key) ==
    CHOOSE o \in KeyOccurrences(mapping) :
        /\ o[3] = key
        /\ \A other \in KeyOccurrences(mapping) : other[3] = key => ~Earlier(other, o)

\* C23: the keys returned are the upper-cased ticket keys found in the tokens of
\* the parameters key, issuekey, issuekeys, issues (read in that order, split
\* on comma, semicolon, newline), each once, in first-occurrence order; tokens
\* without a key are dropped and nothing is raised.
C23_KeysInFirstOccurrenceOrder ==
    iOutcome = "returned" =>
        /\ { iKeys[i] : i \in DOMAIN iKeys } = { o[3] : o \in KeyOccurrences(iParams) }
        /\ \A i, j \in DOMAIN iKeys :
               i < j => /\ iKeys[i] # iKeys[j]
                        /\ Earlier(FirstOccurrence(iParams, iKeys[i]),
                                   FirstOccurrence(iParams, iKeys[j]))

\* keys were collected from two parameters inserted against the reading order
\* that hold the same key in different case: it is returned once
C23_Witness ==
    /\ iOutcome = "returned"
    /\ Len(iParams) = 2
    /\ iParams[1].key = CandidateNames[4]
    /\ iParams[2].key = CandidateNames[1]
    /\ iParams[1].value # iParams[2].value
    /\ Cardinality(KeyOccurrences(iParams)) = 2
    /\ Len(iKeys) = 1

-----------------------------------------------------------------------------
-----------------------------------------------------------------------------
(* jira/client.py, confluence/client.py: failed requests *)

\* the message an error body provides (<<>> when it provides none): message or
\* reason for the wiki; errorMessages joined, or errors as "field: text", for
\* the tracker
UpstreamMessage(kind, body) ==
    IF body.json # "object" THEN <<>>
    ELSE IF kind = "confluence"
    THEN IF body.message.t = "str" /\ body.message.v # <<>> THEN body.message.v
         ELSE IF body.reason.t = "str" THEN body.reason.v
         ELSE <<>>
    ELSE IF body.errorMessages.t = "list" /\ body.errorMessages.v # <<>>
    THEN Join(body.errorMessages.v, "; ", 1)
    ELSE IF body.errors.t = "dict" /\ body.errors.v # <<>>
    THEN Join(FormatItems(body.errors.v), "; ", 1)
    ELSE <<>>

\* C24: a request that ends in an error status or a network failure is issued
\* once and reaches the caller as the client's own error, with the upstream
\* message when the body provides one and the generic message otherwise,
\* whatever the shape of the error body.
C24_FailureIsClientError ==
    eOutcome = "raised" =>
        /\ eAttempts = 1
        /\ eError.kind = ClientError(eKind)
        /\ eResponse.net = "http_error" =>
               eError.message =
                   IF UpstreamMessage(eKind, eResponse.body) # <<>>
                   THEN UpstreamMessage(eKind, eResponse.body)
                   ELSE GenericMessage(eKind, eResponse.status)

-----------------------------------------------------------------------------
-----------------------------------------------------------------------------
(* JiraService.fetch_issue_fields *)

\* a request made for this key ended in an integration error
RequestFailed(handled) == ~handled.issueOk \/ ~handled.listOk

HandledKeys(entries) == [k \in DOMAIN entries |-> entries[k].key]

-----------------------------------------------------------------------------
(* Properties of the result cap of get_child_pages *)

\* requests issued by the call so far: the answered ones and the one that
\* raised, if the call ended with an error
ChildRequests == Len(responses) + (IF cpOutcome = "error" THEN 1 ELSE 0)

\* C26: with a limit L the call issues at most L requests, none when L is 0,
\* whatever the upstream answers: every response that is followed by another
\* request carried at least one entry, and after the L-th answered request no
\* further request can be issued.
C26_AtMostLimitRequests ==
    limit # NoLimit =>
        /\ ChildRequests <= limit
        /\ limit = 0 => ChildRequests = 0
        /\ \A k \in 1..(ChildRequests - 1) : responses[k].entries # <<>>
        /\ Len(responses) = limit => ( cpc = "done" \/ Len(collected) >= limit )

\* three requests under limit 3, each answered with one entry and a next link
C26_Witness ==
    /\ cpOutcome = "returned"
    /\ limit = 3
    /\ Len(responses) = 3
    /\ \A k \in DOMAIN responses : Len(responses[k].entries) = 1 /\ responses[k].next

-----------------------------------------------------------------------------
\* C29: the list returned under a limit L has at most L entries, whatever
\* the upstream answers, a response with more entries than the request's batch
\* size included.
C29_ResultWithinLimit ==
    ( cpOutcome = "returned" /\ limit # NoLimit ) => Len(collected) <= limit

-----------------------------------------------------------------------------
(* Iteration ceilings of the pagination loops *)

\* C27: the pagination loop of _find_service_desk_id has a ceiling on its
\* iterations: whatever the upstream answers, the search has ended once it
\* has issued that many requests (here the largest number of requests that
\* is explored).
C27_LoopEndsWithinCeiling ==
    Len(sdResponses) >= MaxSdRequests => sdpc = "done"

-----------------------------------------------------------------------------
(* The change flag of transition_issue *)

\* C28: transition_issue reports changed=True only when the returned `after`
\* status differs from the returned `before` status.
C28_ChangedMeansStatusDiffers ==
    ( outcome = "returned" /\ changed ) => after # before

-----------------------------------------------------------------------------
(* Properties of ConfluenceService.fetch_targets *)

====
